---------------------------- MODULE Spec2Model ----------------------------
(***************************************************************************)
(* Enigma v3.0.0 option-key calculator (enigma_v300_pure_cpp.cpp and the   *)
(* C port enigma_v300_pure_c.c).  Strings are sequences of ASCII codes, so *)
(* that the character arithmetic of the engines (c - '0', c - 'a' + 10,    *)
(* tolower, isxdigit, ...) is modelled as the code computes it.            *)
(***************************************************************************)
EXTENDS Integers, Sequences, FiniteSets, TLC

VARIABLES
    pc,             \* "idle": no call made since the last reset; "called": a call has ended
    fn,             \* the function called
    calls,          \* the engine functions entered during the call, in order
    input_key,      \* the key / plaintext argument of the call
    serial_number,  \* the serial number argument (or <<>>)
    option,         \* the option argument (or -1)
    product_number,   \* the product code argument (or -1)
    output_key,     \* the string the call left in its output parameter / local
    ret,            \* "true" / "false" for a bool function that returned, else "none"
    outcome,        \* "return", "exit" (std::exit(1)) or "throw" (exception escaped)
    plain,          \* the input of the previous call, when this call was fed its output
    c_port,         \* what the C port's function does on the same arguments
    lang,           \* the port whose program runs: "cpp" or "c" ("none": no program)
    argv,           \* the command line, argv[1] onwards
    at,             \* where the program is: "main", the read it waits at, or "ended"
    local,          \* the locals of the functions on the call stack
    stdin,          \* standard input: what has been read of it
    stdout,         \* what the program has printed, in order
    exit_status     \* "running", or how the program ended

vars == <<pc, fn, calls, input_key, serial_number, option, product_number, output_key, ret,
          outcome, plain, c_port, lang, argv, at, local, stdin, stdout, exit_status>>

(***************************************************************************)
(* Characters                                                              *)
(***************************************************************************)
DigitChars == <<"0", "1", "2", "3", "4", "5", "6", "7", "8", "9">>

UpperChars == <<"A", "B", "C", "D", "E", "F", "G", "H", "I", "J", "K", "L", "M",
                "N", "O", "P", "Q", "R", "S", "T", "U", "V", "W", "X", "Y", "Z">>

LowerChars == <<"a", "b", "c", "d", "e", "f", "g", "h", "i", "j", "k", "l", "m",
                "n", "o", "p", "q", "r", "s", "t", "u", "v", "w", "x", "y", "z">>

\* ASCII code of a one-character string literal.
Ord(ch) ==
    IF \E i \in 1..10 : DigitChars[i] = ch
    THEN 47 + (CHOOSE i \in 1..10 : DigitChars[i] = ch)
    ELSE IF \E i \in 1..26 : UpperChars[i] = ch
    THEN 64 + (CHOOSE i \in 1..26 : UpperChars[i] = ch)
    ELSE IF \E i \in 1..26 : LowerChars[i] = ch
    THEN 96 + (CHOOSE i \in 1..26 : LowerChars[i] = ch)
    ELSE IF ch = " " THEN 32
    ELSE IF ch = "+" THEN 43
    ELSE IF ch = "-" THEN 45
    ELSE IF ch = "." THEN 46
    ELSE 63

\* A string literal, written as a tuple of one-character strings.
Str(t) == [i \in 1..Len(t) |-> Ord(t[i])]

isdigit(c) == c >= 48 /\ c <= 57

\* isxdigit with the letter ranges one too long.
isxdigit_ThroughG(c) == isdigit(c) \/ (c >= 65 /\ c <= 71) \/ (c >= 97 /\ c <= 103)

isxdigit(c) == isdigit(c) \/ (c >= 65 /\ c <= 70) \/ (c >= 97 /\ c <= 102)

isspace(c) == c = 32 \/ (c >= 9 /\ c <= 13)

tolower(c) == IF c >= 65 /\ c <= 90 THEN c + 32 ELSE c

\* a ^ b on non-negative ints.
RECURSIVE BitXor(_, _)
BitXor(a, b) ==
    IF a = 0 /\ b = 0 THEN 0
    ELSE (((a % 2) + (b % 2)) % 2) + 2 * BitXor(a \div 2, b \div 2)

\* C++ integer % (truncating toward zero).
CMod(a, m) == IF a >= 0 THEN a % m ELSE -((-a) % m)

\* std::stoi(str): skips leading whitespace, takes an optional sign and the
\* longest run of decimal digits; throws std::invalid_argument when there is
\* no digit to convert.  Trailing characters are ignored.
RECURSIVE SkipSpace(_, _)
SkipSpace(s, i) ==
    IF i <= Len(s) /\ isspace(s[i]) THEN SkipSpace(s, i + 1) ELSE i

RECURSIVE ParseDigits(_, _, _)
ParseDigits(s, i, acc) ==
    IF i <= Len(s) /\ isdigit(s[i])
    THEN ParseDigits(s, i + 1, acc * 10 + (s[i] - 48))
    ELSE acc

stoi(s) ==
    LET i0   == SkipSpace(s, 1)
        sgn  == i0 <= Len(s) /\ (s[i0] = 43 \/ s[i0] = 45)
        neg  == i0 <= Len(s) /\ s[i0] = 45
        i1   == IF sgn THEN i0 + 1 ELSE i0
        some == i1 <= Len(s) /\ isdigit(s[i1])
        mag  == ParseDigits(s, i1, 0)
    IN  IF some THEN [ok |-> TRUE, value |-> IF neg THEN -mag ELSE mag]
        ELSE [ok |-> FALSE, value |-> 0]

\* std::string::substr(pos, n) for pos <= size.
substr(s, pos, n) ==
    SubSeq(s, pos + 1, IF pos + n > Len(s) THEN Len(s) ELSE pos + n)

(***************************************************************************)
(* Program constants and rotor tables                                      *)
(***************************************************************************)
PRODUCT_CODE_SIZE == 4
OPTION_CODE_SIZE == 3
SERIAL_NUMBER_SIZE_ENIGMA2 == 7
SERIAL_NUMBER_SIZE_ENIGMAC == 10
CHECK_SUM_SIZE == 2
KEY_LENGTH == PRODUCT_CODE_SIZE + OPTION_CODE_SIZE + SERIAL_NUMBER_SIZE_ENIGMA2 + CHECK_SUM_SIZE
SERIAL_LOCATION == CHECK_SUM_SIZE + PRODUCT_CODE_SIZE
PRODUCT_LOCATION == CHECK_SUM_SIZE
OPTION_LOCATION == CHECK_SUM_SIZE + PRODUCT_CODE_SIZE + SERIAL_NUMBER_SIZE_ENIGMA2
\* MAX_CHECK_SUM two orders of magnitude smaller.
MAX_CHECK_SUM_Small == 26 * 10
MAX_CHECK_SUM == 26000

\* The tables are 0-indexed in the code: At(tbl, i) is tbl.at(i).
At(tbl, i) == tbl[i + 1]

\* ENIGMA_C_ROTOR with 16 added to its first entry.
ENIGMA_C_ROTOR_Wide == <<21, 4, 14, 11, 1, 8, 10, 13, 7, 3, 15, 0, 2, 12, 9, 6>>

ENIGMA_C_ROTOR == <<5, 4, 14, 11, 1, 8, 10, 13, 7, 3, 15, 0, 2, 12, 9, 6>>

\* ENIGMA2_E_ROTOR_10 with its first two entries exchanged.
ENIGMA2_E_ROTOR_10_Swapped == <<4, 5, 1, 8, 7, 3, 0, 2, 9, 6>>

ENIGMA2_E_ROTOR_10 == <<5, 4, 1, 8, 7, 3, 0, 2, 9, 6>>

ENIGMA2_E_ROTOR_26 ==
    <<16, 8, 25, 5, 23, 21, 18, 17, 2, 1, 7, 24, 15, 11, 9, 6, 3, 0, 19, 12, 22, 14, 10, 4, 20, 13>>

\* ENIGMA2_D_ROTOR_10 with its last two entries exchanged.
ENIGMA2_D_ROTOR_10_Swapped == <<6, 2, 7, 5, 1, 0, 9, 4, 8, 3>>

ENIGMA2_D_ROTOR_10 == <<6, 2, 7, 5, 1, 0, 9, 4, 3, 8>>

\* ENIGMA2_D_ROTOR_26 with its last entry mistyped (11 twice, 2 missing).
ENIGMA2_D_ROTOR_26_Duplicate ==
    <<17, 9, 8, 16, 23, 3, 15, 10, 1, 14, 22, 13, 19, 25, 21, 12, 0, 7, 6, 18, 24, 5, 20, 4, 11, 11>>

ENIGMA2_D_ROTOR_26 ==
    <<17, 9, 8, 16, 23, 3, 15, 10, 1, 14, 22, 13, 19, 25, 21, 12, 0, 7, 6, 18, 24, 5, 20, 4, 11, 2>>

(***************************************************************************)
(* Cipher-A engine (EnigmaC).  An engine call yields a record: outcome is  *)
(* "return", "exit" (std::exit(1)) or "throw" (an exception leaves the     *)
(* function: std::out_of_range from at(), std::invalid_argument from       *)
(* std::stoi).                                                             *)
(***************************************************************************)
\* output_key.resize(len) on an empty string: len NUL characters.
Resized(len) == [i \in 1..len |-> 0]

\* HexChar writing uppercase letters.
HexChar_Upper(temp) == IF temp < 10 THEN temp + 48 ELSE temp - 10 + 65

\* The hex digit written for a nibble value temp.
HexChar(temp) == IF temp < 10 THEN temp + 48 ELSE temp - 10 + 97

\* The value read from a lower-cased hex digit c.
HexValue(c) == IF c >= 48 /\ c <= 57 THEN c - 48 ELSE c - 97 + 10

RECURSIVE EncryptCLoop(_, _, _, _, _)
EncryptCLoop(in, len, index, output_value, out) ==
    IF index >= len THEN [outcome |-> "return", output_key |-> out]
    ELSE IF index >= Len(in) THEN [outcome |-> "throw", output_key |-> out]
    ELSE
        LET c == tolower(in[index + 1]) IN
        IF ~isxdigit(c) THEN [outcome |-> "exit", output_key |-> out]
        ELSE
            LET input_value == HexValue(c)
                new_value   == BitXor(At(ENIGMA_C_ROTOR, (input_value + index) % 16), output_value)
                temp        == new_value % 16
            IN  EncryptCLoop(in, len, index + 1, new_value,
                             [out EXCEPT ![index + 1] = HexChar(temp)])

enigma_c_encrypt(in, len) == EncryptCLoop(in, len, 0, 0, Resized(len))

\* RotorSearch answering the searched value instead of its index.
RotorSearch_NoTable(input_value, i) == input_value

\* The linear search of enigma_c_decrypt: the first i in 0..15 with
\* ENIGMA_C_ROTOR.at(i) == input_value, or 0 when there is none.
RECURSIVE RotorSearch(_, _)
RotorSearch(input_value, i) ==
    IF i >= 16 THEN 0
    ELSE IF At(ENIGMA_C_ROTOR, i) = input_value THEN i
    ELSE RotorSearch(input_value, i + 1)

\* DecryptNibble without the correction of a negative remainder.
DecryptNibble_NoWrap(output_value, index) == CMod(output_value - index, 16)

\* temp = (output_value - index) % 16; if (temp < 0) temp += 16;
DecryptNibble(output_value, index) ==
    LET temp == CMod(output_value - index, 16)
    IN  IF temp < 0 THEN temp + 16 ELSE temp

RECURSIVE DecryptCLoop(_, _, _, _, _)
DecryptCLoop(in, len, index, xor_value, out) ==
    IF index >= len THEN [outcome |-> "return", output_key |-> out]
    ELSE IF index >= Len(in) THEN [outcome |-> "throw", output_key |-> out]
    ELSE
        LET c == tolower(in[index + 1]) IN
        IF ~isxdigit(c) THEN [outcome |-> "exit", output_key |-> out]
        ELSE
            LET old_output   == HexValue(c)
                input_value  == BitXor(old_output, xor_value)
                output_value == RotorSearch(input_value, 0)
                temp         == DecryptNibble(output_value, index)
            IN  DecryptCLoop(in, len, index + 1, old_output,
                             [out EXCEPT ![index + 1] = HexChar(temp)])

enigma_c_decrypt(in, len) == DecryptCLoop(in, len, 0, 0, Resized(len))

\* "bladerules"
BLADERULES == Str(<<"b", "l", "a", "d", "e", "r", "u", "l", "e", "s">>)

\* IsMasterKey comparing without regard to case.
IsMasterKey_NoCase(key) == [i \in 1..Len(key) |-> tolower(key[i])] = BLADERULES

\* key == "bladerules"
IsMasterKey(key) == key = BLADERULES

\* reversed_serial.at(i) = decrypted_key.at(9 - i), i in 0..9
ReversedSerial(decrypted_key) == [i \in 1..10 |-> decrypted_key[(9 - (i - 1)) + 1]]

enigma_c_check_option_key(opt_arg, key, serial) ==
    IF key = <<>>
    THEN [outcome |-> "return", ret |-> "false", calls |-> <<>>, output_key |-> <<>>]
    ELSE IF IsMasterKey(key)
    THEN [outcome |-> "return", ret |-> "true", calls |-> <<>>, output_key |-> <<>>]
    ELSE
        LET d == enigma_c_decrypt(key, 12)
            decrypted_key == d.output_key
        IN  IF d.outcome # "return"
            THEN [outcome |-> d.outcome, ret |-> "none",
                  calls |-> <<"enigma_c_decrypt">>, output_key |-> decrypted_key]
            ELSE
                LET reversed_serial == ReversedSerial(decrypted_key)
                    opt_str         == substr(decrypted_key, 10, 2)
                    opt             == stoi(opt_str)
                IN  IF reversed_serial # serial
                    THEN [outcome |-> "return", ret |-> "false",
                          calls |-> <<"enigma_c_decrypt">>, output_key |-> decrypted_key]
                    ELSE IF ~opt.ok
                    THEN [outcome |-> "throw", ret |-> "none",
                          calls |-> <<"enigma_c_decrypt">>, output_key |-> decrypted_key]
                    ELSE [outcome |-> "return",
                          ret |-> IF opt.value = opt_arg THEN "true" ELSE "false",
                          calls |-> <<"enigma_c_decrypt">>, output_key |-> decrypted_key]

(***************************************************************************)
(* Cipher-B engine (Enigma2C)                                              *)
(***************************************************************************)
\* isdigit(c) ? (c - '0') : (c - 'A')
CharValue(c) == IF isdigit(c) THEN c - 48 ELSE c - 65

\* Weight without the product term.
Weight_NoProduct(i, temp_sum) == i + temp_sum

\* i + temp_sum + (i * temp_sum)
Weight(i, temp_sum) == i + temp_sum + (i * temp_sum)

\* First loop of enigma2_c_encrypt: checksum over input positions 2..15.
RECURSIVE Enigma2InputSum(_, _, _)
Enigma2InputSum(in, i, checksum) ==
    IF i >= KEY_LENGTH THEN checksum
    ELSE Enigma2InputSum(in, i + 1, checksum + Weight(i, CharValue(in[i + 1])))

\* Enigma2Checksum without the subtraction from 100.
Enigma2Checksum_NoComplement(in) == CMod(Enigma2InputSum(in, 2, 1), 100)

\* checksum = 100 - (checksum % 100)
Enigma2Checksum(in) == 100 - CMod(Enigma2InputSum(in, 2, 1), 100)

\* WithChecksum with the tens digit first.
WithChecksum_TensFirst(in) ==
    LET checksum == 100 - CMod(Enigma2InputSum(in, 2, 1), 100)
    IN  [in EXCEPT ![1] = CMod(checksum \div 10, 10) + 48,
                   ![2] = CMod(checksum, 10) + 48]

\* output_key after the two checksum digits are written at positions 0 and 1.
WithChecksum(in) ==
    LET checksum == Enigma2Checksum(in)
    IN  [in EXCEPT ![1] = CMod(checksum, 10) + 48,
                   ![2] = CMod(checksum \div 10, 10) + 48]

\* Second loop of enigma2_c_encrypt: rotor substitution.
RECURSIVE Enigma2RotorLoop(_, _, _)
Enigma2RotorLoop(out, i, running_sum) ==
    IF i >= KEY_LENGTH THEN [outcome |-> "return", output_key |-> out]
    ELSE
        LET c        == out[i + 1]
            temp_sum == CharValue(c)
            raw      == temp_sum + MAX_CHECK_SUM - running_sum
            idx      == IF isdigit(c) THEN CMod(raw, 10) ELSE CMod(raw, 26)
        IN  IF idx < 0 THEN [outcome |-> "throw", output_key |-> out]
            ELSE Enigma2RotorLoop(
                     [out EXCEPT ![i + 1] = IF isdigit(c)
                                            THEN At(ENIGMA2_E_ROTOR_10, idx) + 48
                                            ELSE 65 + At(ENIGMA2_E_ROTOR_26, idx)],
                     i + 1, running_sum + Weight(i, temp_sum))

\* enigma2_c_encrypt with the checksum loop starting at position 0.
enigma2_c_encrypt_SumFromZero(in) ==
    IF Len(in) # KEY_LENGTH THEN [outcome |-> "exit", output_key |-> <<>>]
    ELSE LET checksum == 100 - CMod(Enigma2InputSum(in, 0, 1), 100)
         IN  Enigma2RotorLoop([in EXCEPT ![1] = CMod(checksum, 10) + 48,
                                         ![2] = CMod(checksum \div 10, 10) + 48], 0, 0)

enigma2_c_encrypt(in) ==
    IF Len(in) # KEY_LENGTH THEN [outcome |-> "exit", output_key |-> <<>>]
    ELSE Enigma2RotorLoop(WithChecksum(in), 0, 0)

\* The loop of enigma2_c_decrypt: inverse rotor substitution with the running
\* checksum.  Yields the decoded characters and the checksum after position 15.
RECURSIVE Enigma2DecodeLoop(_, _, _)
Enigma2DecodeLoop(out, i, checksum) ==
    IF i >= KEY_LENGTH THEN [outcome |-> "return", output_key |-> out, checksum |-> checksum]
    ELSE
        LET c   == out[i + 1]
            raw == IF isdigit(c) THEN c - 48 ELSE c - 65
        IN  IF ~isdigit(c) /\ (raw < 0 \/ raw >= 26)
            THEN [outcome |-> "throw", output_key |-> out, checksum |-> checksum]
            ELSE
                LET temp_sum == IF isdigit(c)
                                THEN CMod(At(ENIGMA2_D_ROTOR_10, raw) + checksum, 10)
                                ELSE CMod(At(ENIGMA2_D_ROTOR_26, raw) + checksum, 26)
                IN  Enigma2DecodeLoop(
                        [out EXCEPT ![i + 1] = IF isdigit(c) THEN temp_sum + 48 ELSE 65 + temp_sum],
                        i + 1, checksum + Weight(i, temp_sum))

\* Enigma2Gate taken modulo 16.
Enigma2Gate_Mod16(decoded, checksum) == CMod(checksum + 8 * (decoded[2] - 48), 16) = 0

\* Enigma2Gate taken modulo 10.
Enigma2Gate_Mod10(decoded, checksum) == CMod(checksum + 8 * (decoded[2] - 48), 10) = 0

\* Enigma2Gate without the tens-digit term.
Enigma2Gate_NoTens(decoded, checksum) == CMod(checksum, 100) = 0

\* checksum += 8 * (output_key.at(1) - '0'); the gate is checksum % 100 != 0.
Enigma2Gate(decoded, checksum) == CMod(checksum + 8 * (decoded[2] - 48), 100) = 0

\* enigma2_c_decrypt returning the decoded characters whatever the checksum.
enigma2_c_decrypt_NoGate(in) ==
    IF Len(in) # KEY_LENGTH THEN [outcome |-> "exit", output_key |-> <<>>]
    ELSE LET d == Enigma2DecodeLoop(in, 0, 0)
         IN  [outcome |-> d.outcome, output_key |-> d.output_key]

enigma2_c_decrypt(in) ==
    IF Len(in) # KEY_LENGTH THEN [outcome |-> "exit", output_key |-> <<>>]
    ELSE
        LET d == Enigma2DecodeLoop(in, 0, 0)
        IN  IF d.outcome # "return" THEN [outcome |-> d.outcome, output_key |-> d.output_key]
            ELSE IF Enigma2Gate(d.output_key, d.checksum)
            THEN [outcome |-> "return", output_key |-> d.output_key]
            ELSE [outcome |-> "return", output_key |-> <<>>]

\* OptionField read at the serial number's offset.
OptionField_AtSerial(decrypted_key) == substr(decrypted_key, SERIAL_LOCATION, OPTION_CODE_SIZE)

\* decrypted_key.substr(OPTION_LOCATION, OPTION_CODE_SIZE)
OptionField(decrypted_key) == substr(decrypted_key, OPTION_LOCATION, OPTION_CODE_SIZE)

enigma2_c_check_option_key(opt_arg, key) ==
    IF key = <<>>
    THEN [outcome |-> "return", ret |-> "false", calls |-> <<>>, output_key |-> <<>>]
    ELSE
        LET d == enigma2_c_decrypt(key)
            decrypted_key == d.output_key
        IN  IF d.outcome # "return"
            THEN [outcome |-> d.outcome, ret |-> "none",
                  calls |-> <<"enigma2_c_decrypt">>, output_key |-> decrypted_key]
            ELSE IF decrypted_key = <<>>
            THEN [outcome |-> "return", ret |-> "false",
                  calls |-> <<"enigma2_c_decrypt">>, output_key |-> decrypted_key]
            ELSE
                LET opt == stoi(OptionField(decrypted_key))
                IN  IF ~opt.ok
                    THEN [outcome |-> "throw", ret |-> "none",
                          calls |-> <<"enigma2_c_decrypt">>, output_key |-> decrypted_key]
                    ELSE [outcome |-> "return",
                          ret |-> IF opt.value = opt_arg THEN "true" ELSE "false",
                          calls |-> <<"enigma2_c_decrypt">>, output_key |-> decrypted_key]

(***************************************************************************)
(* Key assembly (the non-interactive paths of the calculate_* functions)   *)
(***************************************************************************)
\* std::to_string(n) for n >= 0.
RECURSIVE to_string(_)
to_string(n) == IF n < 10 THEN <<n + 48>> ELSE to_string(n \div 10) \o <<(n % 10) + 48>>

\* std::string(width - s.length(), '0') + s, for s no longer than width.
ZeroPad(s, width) == [i \in 1..(width - Len(s)) |-> 48] \o s

\* std::all_of(s.begin(), s.end(), ::isdigit)
AllDigits(s) == \A i \in 1..Len(s) : isdigit(s[i])

\* Reversed12 that copies without reversing.
Reversed12_Forward(s) == [i \in 1..12 |-> s[i]]

\* reversed_key.at(i) = input_key.at(11 - i), i in 0..11
Reversed12(s) == [i \in 1..12 |-> s[(11 - (i - 1)) + 1]]

\* calculate_nettool_option_key(serial_number, option_number) with a serial
\* number given (no prompt) and option_number >= 0.
calculate_nettool_option_key(serial, option_number) ==
    IF Len(serial) # SERIAL_NUMBER_SIZE_ENIGMAC \/ ~AllDigits(serial)
    THEN [outcome |-> "exit", input_key |-> <<>>, output_key |-> <<>>, calls |-> <<>>]
    ELSE
        LET opt          == IF option_number < 0 \/ option_number > 9 THEN 0 ELSE option_number
            key          == serial \o to_string(opt) \o <<48>>
            reversed_key == Reversed12(key)
            e            == enigma_c_encrypt(reversed_key, 12)
        IN  [outcome |-> e.outcome, input_key |-> reversed_key,
             output_key |-> e.output_key, calls |-> <<"enigma_c_encrypt">>]

\* calculate_enigma2_option_key(serial_number, option_number, product_code, true)
\* with a serial number given and option_number, product_code >= 0: no prompt
\* and no product menu.
calculate_enigma2_option_key(serial, option_number, product_code) ==
    LET product_code_str == ZeroPad(to_string(product_code), 4)
        option_str       == ZeroPad(to_string(option_number), 3)
    IN  IF Len(serial) # SERIAL_NUMBER_SIZE_ENIGMA2 \/ ~AllDigits(serial)
        THEN [outcome |-> "exit", input_key |-> <<>>, output_key |-> <<>>, calls |-> <<>>]
        ELSE
            LET key == <<48, 48>> \o product_code_str \o serial \o option_str
                e   == enigma2_c_encrypt(key)
            IN  [outcome |-> e.outcome, input_key |-> key,
                 output_key |-> e.output_key, calls |-> <<"enigma2_c_encrypt">>]

(***************************************************************************)
(* The C port of the engine (enigma_v300_pure_c.c).  A C string is the     *)
(* sequence of its characters before the terminating NUL.  Each function   *)
(* yields [outcome, output_key, ret]; the outcome "crash" stands for the   *)
(* process being killed after an out-of-bounds read.                       *)
(***************************************************************************)
\* input_key[index] for index <= strlen(input_key): the NUL at the end.
C_CharAt(s, index) == IF index < Len(s) THEN s[index + 1] ELSE 0

RECURSIVE C_EncryptCLoop(_, _, _, _, _)
C_EncryptCLoop(in, len, index, output_value, out) ==
    IF index >= len THEN [outcome |-> "return", output_key |-> out, ret |-> "none"]
    ELSE
        LET c == tolower(C_CharAt(in, index)) IN
        IF ~isxdigit(c) THEN [outcome |-> "exit", output_key |-> out, ret |-> "none"]
        ELSE
            LET input_value == IF c >= 48 /\ c <= 57 THEN c - 48 ELSE c - 97 + 10
                new_value   == BitXor(At(ENIGMA_C_ROTOR, (input_value + index) % 16), output_value)
            IN  C_EncryptCLoop(in, len, index + 1, new_value,
                               out \o <<IF new_value % 16 < 10
                                        THEN (new_value % 16) + 48
                                        ELSE (new_value % 16) - 10 + 97>>)

C_enigma_c_encrypt(in, len) == C_EncryptCLoop(in, len, 0, 0, <<>>)

\* (output_value - index) % 16 with index a size_t: the difference wraps
\* modulo 2^64, a multiple of 16, so the remainder is the non-negative one.
C_DecryptNibble(output_value, index) == (output_value - index) % 16

RECURSIVE C_DecryptCLoop(_, _, _, _, _)
C_DecryptCLoop(in, len, index, xor_value, out) ==
    IF index >= len THEN [outcome |-> "return", output_key |-> out, ret |-> "none"]
    ELSE
        LET c == tolower(C_CharAt(in, index)) IN
        IF ~isxdigit(c) THEN [outcome |-> "exit", output_key |-> out, ret |-> "none"]
        ELSE
            LET old_output   == IF c >= 48 /\ c <= 57 THEN c - 48 ELSE c - 97 + 10
                input_value  == BitXor(old_output, xor_value)
                output_value == RotorSearch(input_value, 0)
                temp         == C_DecryptNibble(output_value, index)
            IN  C_DecryptCLoop(in, len, index + 1, old_output,
                               out \o <<IF temp < 10 THEN temp + 48 ELSE temp - 10 + 97>>)

C_enigma_c_decrypt(in, len) == C_DecryptCLoop(in, len, 0, 0, <<>>)

\* atoi(str): the value std::stoi converts, and 0 when there is no digit to
\* convert.
atoi(s) == IF stoi(s).ok THEN stoi(s).value ELSE 0

C_enigma_c_check_option_key(opt_arg, key, serial) ==
    IF key = <<>> THEN [outcome |-> "return", output_key |-> <<>>, ret |-> "false"]
    ELSE IF key = BLADERULES THEN [outcome |-> "return", output_key |-> <<>>, ret |-> "true"]
    ELSE
        LET d == C_enigma_c_decrypt(key, 12)
            decrypted_key == d.output_key
        IN  IF d.outcome # "return" THEN d
            ELSE
                LET reversed_serial == [i \in 1..10 |-> decrypted_key[(9 - (i - 1)) + 1]]
                    opt_str         == <<decrypted_key[11], decrypted_key[12]>>
                    opt             == atoi(opt_str)
                IN  IF reversed_serial # serial
                    THEN [outcome |-> "return", output_key |-> decrypted_key, ret |-> "false"]
                    ELSE [outcome |-> "return", output_key |-> decrypted_key,
                          ret |-> IF opt = opt_arg THEN "true" ELSE "false"]

\* Second loop of the C enigma2_c_encrypt.  The index is never negative for
\* characters below 128 (running_sum stays under MAX_CHECK_SUM).
RECURSIVE C_Enigma2RotorLoop(_, _, _)
C_Enigma2RotorLoop(out, i, running_sum) ==
    IF i >= KEY_LENGTH THEN [outcome |-> "return", output_key |-> out, ret |-> "none"]
    ELSE
        LET c        == out[i + 1]
            temp_sum == IF isdigit(c) THEN c - 48 ELSE c - 65
            raw      == temp_sum + MAX_CHECK_SUM - running_sum
        IN  IF raw < 0 THEN [outcome |-> "crash", output_key |-> out, ret |-> "none"]
            ELSE C_Enigma2RotorLoop(
                     [out EXCEPT ![i + 1] = IF isdigit(c)
                                            THEN At(ENIGMA2_E_ROTOR_10, raw % 10) + 48
                                            ELSE 65 + At(ENIGMA2_E_ROTOR_26, raw % 26)],
                     i + 1, running_sum + i + temp_sum + (i * temp_sum))

C_enigma2_c_encrypt(in) ==
    IF Len(in) # KEY_LENGTH THEN [outcome |-> "exit", output_key |-> <<>>, ret |-> "none"]
    ELSE
        LET checksum == 100 - CMod(Enigma2InputSum(in, 2, 1), 100)
        IN  C_Enigma2RotorLoop([in EXCEPT ![1] = CMod(checksum, 10) + 48,
                                          ![2] = CMod(checksum \div 10, 10) + 48], 0, 0)

\* ENIGMA2_D_ROTOR_26[output_key[i] - 'A'] reads outside the table for a
\* character that is neither a digit nor an uppercase letter.
C_ReadsOutOfBounds(in) == \E i \in 1..Len(in) : ~isdigit(in[i]) /\ (in[i] < 65 \/ in[i] > 90)

\* Values such a read may yield.
OutOfBoundsReads == {-1, 0, 17, 1000}

\* The loop of the C enigma2_c_decrypt, v the value an out-of-bounds read yields.
RECURSIVE C_Enigma2DecodeLoop(_, _, _, _)
C_Enigma2DecodeLoop(out, i, checksum, v) ==
    IF i >= KEY_LENGTH THEN [output_key |-> out, checksum |-> checksum]
    ELSE
        LET c        == out[i + 1]
            entry    == IF isdigit(c) THEN At(ENIGMA2_D_ROTOR_10, c - 48)
                        ELSE IF c >= 65 /\ c <= 90 THEN At(ENIGMA2_D_ROTOR_26, c - 65)
                        ELSE v
            temp_sum == IF isdigit(c) THEN CMod(entry + checksum, 10)
                        ELSE CMod(entry + checksum, 26)
        IN  C_Enigma2DecodeLoop(
                [out EXCEPT ![i + 1] = IF isdigit(c) THEN temp_sum + 48 ELSE 65 + temp_sum],
                i + 1, checksum + i + temp_sum + (i * temp_sum), v)

C_enigma2_c_decrypt(in, v) ==
    IF Len(in) # KEY_LENGTH THEN [outcome |-> "exit", output_key |-> <<>>, ret |-> "none"]
    ELSE
        LET d == C_Enigma2DecodeLoop(in, 0, 0, v)
        IN  IF CMod(d.checksum + 8 * (d.output_key[2] - 48), 100) # 0
            THEN [outcome |-> "return", output_key |-> <<>>, ret |-> "none"]
            ELSE [outcome |-> "return", output_key |-> d.output_key, ret |-> "none"]

C_enigma2_c_check_option_key(opt_arg, key, v) ==
    IF key = <<>> THEN [outcome |-> "return", output_key |-> <<>>, ret |-> "false"]
    ELSE
        LET d == C_enigma2_c_decrypt(key, v)
        IN  IF d.outcome # "return" THEN d
            ELSE IF d.output_key = <<>> THEN [d EXCEPT !.ret = "false"]
            ELSE [d EXCEPT !.ret =
                      IF atoi(SubSeq(d.output_key, OPTION_LOCATION + 1,
                                     OPTION_LOCATION + OPTION_CODE_SIZE)) = opt_arg
                      THEN "true" ELSE "false"]

\* No C function corresponds to the call.
NoPort == [outcome |-> "none", output_key |-> <<>>, ret |-> "none"]

\* What the C port's function f can do with the arguments of the call.
C_Port(f, in, serial, opt) ==
    IF f = "enigma_c_encrypt" THEN {C_enigma_c_encrypt(in, 12)}
    ELSE IF f = "enigma_c_decrypt" THEN {C_enigma_c_decrypt(in, 12)}
    ELSE IF f = "enigma_c_check_option_key" THEN {C_enigma_c_check_option_key(opt, in, serial)}
    ELSE IF f = "enigma2_c_encrypt" THEN {C_enigma2_c_encrypt(in)}
    ELSE IF f \in {"enigma2_c_decrypt", "enigma2_c_check_option_key"}
    THEN LET reads == IF Len(in) = KEY_LENGTH /\ C_ReadsOutOfBounds(in)
                      THEN OutOfBoundsReads ELSE {0}
             ends  == IF f = "enigma2_c_decrypt"
                      THEN {C_enigma2_c_decrypt(in, v) : v \in reads}
                      ELSE {C_enigma2_c_check_option_key(opt, in, v) : v \in reads}
         IN  IF Len(in) = KEY_LENGTH /\ C_ReadsOutOfBounds(in)
             THEN ends \cup {[outcome |-> "crash", output_key |-> <<>>, ret |-> "none"]}
             ELSE ends
    ELSE {NoPort}

(***************************************************************************)
(* Inputs.  The serial numbers, plaintexts and keys presented to the       *)
(* program are drawn from the sample lists below, cut to the bounds, and   *)
(* from every single-character substitution of the sampled strings.        *)
(***************************************************************************)
NumSerials10 == 3
NumSerials7 == 2
NumHexSamples == 3
NumPlain16 == 2
NumKeys16 == 3

Serial10Samples ==
    <<Str(<<"0", "0", "0", "3", "3", "3", "3", "0", "1", "6">>),
      Str(<<"0", "0", "0", "0", "0", "0", "0", "0", "0", "0">>),
      Str(<<"1", "2", "3", "4", "5", "6", "7", "8", "9", "0">>),
      Str(<<"9", "8", "7", "6", "5", "4", "3", "2", "1", "0">>),
      Str(<<"5", "5", "5", "0", "0", "0", "1", "2", "3", "4">>)>>

Serial7Samples ==
    <<Str(<<"0", "0", "0", "0", "6", "0", "7">>),
      Str(<<"1", "2", "3", "4", "5", "6", "7">>),
      Str(<<"9", "9", "9", "9", "9", "9", "9">>),
      Str(<<"0", "0", "0", "0", "0", "0", "0">>)>>

HexSamples ==
    <<Str(<<"0", "4", "6", "1", "0", "3", "3", "3", "3", "0", "0", "0">>),
      Str(<<"a", "b", "c", "d", "e", "f", "0", "1", "2", "3", "4", "5">>),
      Str(<<"F", "E", "D", "C", "B", "A", "9", "8", "7", "6", "5", "4">>),
      Str(<<"5", "d", "a", "b", "a", "d", "e", "1", "1", "2", "d", "d">>),
      Str(<<"0", "0", "0", "0", "0", "0", "0", "0", "0", "0", "0", "f">>)>>

Plain16Samples ==
    <<Str(<<"0", "0", "6", "9", "6", "3", "0", "0", "0", "0", "6", "0", "7", "0", "0", "7">>),
      Str(<<"0", "0", "A", "B", "C", "D", "E", "F", "G", "H", "I", "J", "K", "L", "M", "N">>),
      Str(<<"Z", "Z", "Z", "Z", "Z", "Z", "Z", "Z", "Z", "Z", "Z", "Z", "Z", "Z", "Z", "Z">>),
      Str(<<"0", "0", "7", "0", "0", "1", "1", "2", "3", "4", "5", "6", "7", "0", "0", "2">>)>>

Key16Samples ==
    <<Str(<<"9", "2", "2", "5", "9", "4", "0", "7", "1", "9", "5", "0", "7", "7", "4", "7">>),
      Str(<<"9", "A", "2", "5", "9", "4", "0", "7", "1", "9", "5", "0", "7", "7", "4", "H">>),
      Str(<<"8", "9", "4", "4", "9", "3", "7", "1", "5", "0", "9", "7", "1", "1", "6", "2">>),
      Str(<<"6", "4", "0", "6", "2", "5", "7", "9", "4", "8", "5", "9", "7", "7", "4", "7">>),
      Str(<<"Q", "W", "E", "R", "T", "Y", "U", "I", "O", "P", "A", "S", "D", "F", "G", "H">>)>>

Prefix(samples, n) == {samples[i] : i \in 1..(IF n < Len(samples) THEN n ELSE Len(samples))}

Serials10 == Prefix(Serial10Samples, NumSerials10)
Serials7 == Prefix(Serial7Samples, NumSerials7)

\* Serial numbers the calculate_* functions reject.
BadSerials == {Str(<<"1", "2", "3", "4", "5">>), Str(<<"1", "2", "3", "4", "5", "6", "a">>)}

\* Characters typed into a hex key: the 22 hex digits and four others.
HexKeyboard == (48..57) \cup (65..71) \cup (97..103) \cup {32, 45}

\* Characters typed into a Cipher-B key: digits, A-Z and four others.
AlnumKeyboard == (48..57) \cup (65..90) \cup {97, 122, 32, 45}

\* Every string that differs from a string of S in at most one position.
Substitutions(S, alphabet) ==
    S \cup {[t EXCEPT ![i] = c] : t \in S, i \in 1..12, c \in alphabet}

Substitutions16(S, alphabet) ==
    S \cup {[t EXCEPT ![i] = c] : t \in S, i \in 1..16, c \in alphabet}

HexInputs == Substitutions(Prefix(HexSamples, NumHexSamples), HexKeyboard)

\* The input of the example in the API documentation: "610333300054".
DocumentedInputs == {Str(<<"6", "1", "0", "3", "3", "3", "3", "0", "0", "0", "5", "4">>)}

\* Strings longer than the len = 12 passed with them: a sampled string and one
\* more character.
LongHexInputs ==
    {t \o <<c>> : t \in Prefix(HexSamples, NumHexSamples), c \in {48, 102, 103, 32}}

Plain16Inputs == Substitutions16(Prefix(Plain16Samples, NumPlain16), AlnumKeyboard)

Key16Inputs == Substitutions16(Prefix(Key16Samples, NumKeys16), AlnumKeyboard)

\* Keys given to enigma_c_check_option_key besides generated ones.
SpecialKeys ==
    {<<>>, BLADERULES,
     Str(<<"B", "l", "a", "d", "e", "r", "u", "l", "e", "s">>),
     Str(<<"B", "L", "A", "D", "E", "R", "U", "L", "E", "S">>),
     Str(<<"b", "l", "a", "d", "e", "r", "u", "l", "e">>),
     Str(<<"b", "l", "a", "d", "e", "r", "u", "l", "e", "s", " ">>)}

\* The key of serial 0000000000 and option 0, which un-reverses to itself.
ZeroKey == enigma_c_encrypt([i \in 1..12 |-> 48], 12).output_key

\* Keys whose length is not 12: ZeroKey and the first sampled string with
\* characters appended, and cut to 11 characters.
WrongLengthKeys ==
    {ZeroKey \o <<102, 102>>, ZeroKey \o <<122>>, SubSeq(ZeroKey, 1, 11),
     HexSamples[1] \o <<48>>, SubSeq(HexSamples[1], 1, 11)}

\* Keys that decrypt to a sampled serial, reversed, followed by two characters
\* that are not both decimal digits: "4a" and "a4".
LetterOptionKeys ==
    {enigma_c_encrypt(ReversedSerial(t) \o o, 12).output_key :
        t \in Serials10, o \in {<<52, 97>>, <<97, 52>>}}

\* Strings of 15 and 17 characters given to the Cipher-B engine.
WrongLength16(S) == {SubSeq(t, 1, 15) : t \in S} \cup {t \o <<48>> : t \in S}

\* Serial strings given to enigma_c_check_option_key.
CheckSerials == Serials10 \cup BadSerials \cup {<<>>}

NetToolOptions == 0..9
CheckOptionsA == (-1)..10

ProductCodes == {6963, 7001, 3001}
OptionNumbers == {2, 4, 7, 999}
CheckOptionsB == 0..999
OptionProbes == {0, 7, 999}

(***************************************************************************)
(* The command-line program: main (C++) and run_enigma_cli (C), the menus  *)
(* and the prompts.  The program runs from position "main" until it ends;  *)
(* it stops at every read of standard input, where the environment hands  *)
(* it the next line or the end of the input.                               *)
(***************************************************************************)
\* A literal of digits, zero-padded: "3001", "064".
Code(n, width) == ZeroPad(to_string(n), width)

PRODUCT_TABLE ==
    <<[code |-> Code(3001, 4), name |-> "NetTool Series II"],
      [code |-> Code(7001, 4), name |-> "LinkRunner Pro Duo"],
      [code |-> Code(6963, 4), name |-> "EtherScope/MetroScope"],
      [code |-> Code(6964, 4), name |-> "OneTouch AT"],
      [code |-> Code(2186, 4), name |-> "OptiView XG"],
      [code |-> Code(1890, 4), name |-> "ClearSight Analyzer"],
      [code |-> Code(1895, 4), name |-> "iClearSight Analyzer"]>>

\* The option codes of each product, in table order.
PRODUCT_OPTIONS ==
    <<[product_code |-> Code(6964, 4),
       options |-> <<Code(0, 3), Code(1, 3), Code(2, 3), Code(3, 3), Code(4, 3), Code(5, 3),
                     Code(6, 3), Code(7, 3), Code(8, 3), Code(9, 3), Code(64, 3), Code(65, 3)>>],
      [product_code |-> Code(6963, 4),
       options |-> <<Code(0, 3), Code(1, 3), Code(2, 3), Code(3, 3), Code(4, 3)>>],
      [product_code |-> Code(7001, 4),
       options |-> <<Code(0, 3), Code(2, 3), Code(3, 3)>>],
      [product_code |-> Code(2186, 4),
       options |-> <<Code(0, 3), Code(1, 3), Code(2, 3), Code(3, 3), Code(4, 3), Code(7, 3)>>],
      [product_code |-> Code(1890, 4), options |-> <<Code(0, 3), Code(7, 3)>>],
      [product_code |-> Code(1895, 4), options |-> <<Code(0, 3), Code(3, 3)>>],
      [product_code |-> Code(3001, 4),
       options |-> <<Code(3, 3), Code(4, 3), Code(5, 3), Code(8, 3)>>]>>

\* The index of the first entry of a table whose field is code, or 0.
FirstIndex(codes, code) ==
    IF \E i \in 1..Len(codes) : codes[i] = code
    THEN CHOOSE i \in 1..Len(codes) :
             codes[i] = code /\ \A j \in 1..(i - 1) : codes[j] # code
    ELSE 0

\* ProductName that falls back on the first entry of the table.
ProductName_FirstEntry(product_code) ==
    LET i == FirstIndex([k \in 1..Len(PRODUCT_TABLE) |-> PRODUCT_TABLE[k].code], product_code)
    IN  IF i = 0 THEN PRODUCT_TABLE[1].name ELSE PRODUCT_TABLE[i].name

\* The loop over PRODUCT_TABLE of check_enigma2_option_key: the name printed
\* after "Product Code: <code> -> ".
ProductName(product_code) ==
    LET i == FirstIndex([k \in 1..Len(PRODUCT_TABLE) |-> PRODUCT_TABLE[k].code], product_code)
    IN  IF i = 0 THEN "Unknown" ELSE PRODUCT_TABLE[i].name

\* The loop over PRODUCT_OPTIONS of product_code_menu: the option codes of the
\* product, or <<>> when it has no entry.
OptionsOf(product_code) ==
    LET i == FirstIndex([k \in 1..Len(PRODUCT_OPTIONS) |-> PRODUCT_OPTIONS[k].product_code],
                        product_code)
    IN  IF i = 0 THEN <<>> ELSE PRODUCT_OPTIONS[i].options

\* The lines typed at the prompts: menu choices in and out of range, text
\* that is no number, codes, serial numbers and an option key.
Lines ==
    {Str(<<"0">>), Str(<<"1">>), Str(<<"4">>), Str(<<"7">>), Str(<<"8">>), Str(<<"9">>),
     Str(<<"x">>), Code(2, 3), Code(1234, 4), Code(1234567, 7), Code(3333016, 10),
     Str(<<"8", "9", "4", "4", "9", "3", "7", "1", "5", "0", "9", "7", "1", "1", "6", "2">>)}

\* The number of lines standard input holds before it ends.
MaxLines == 3

\* The command lines the program is started with (argv[1], argv[2], ...).
Argvs ==
    LET l   == Str(<<"-", "l">>)
        e   == Str(<<"-", "e">>)
        d   == Str(<<"-", "d">>)
        n   == Str(<<"-", "n">>)
        x   == Str(<<"-", "x">>)
        s7  == Code(1234567, 7)
    IN  {<<>>,
         <<l, s7, Code(2, 1)>>, <<l, Code(607, 7), Code(3, 3)>>,
         <<l, s7>>, <<l, s7, Str(<<"x">>)>>, <<l, s7, Code(1000, 4)>>,
         <<l, Code(12345678, 8), Code(2, 1)>>,
         <<e, s7, Code(7, 1)>>,
         <<d, Str(<<"8", "9", "4", "4", "9", "3", "7", "1", "5", "0", "9", "7", "1", "1", "6", "2">>)>>,
         <<d, Str(<<"1", "1", "5", "0", "0", "9", "0", "7", "1", "9", "5", "0", "7", "7", "4", "1">>)>>,
         <<d, Str(<<"8", "9", "4", "4", "9", "3", "7", "1", "5", "0", "9", "7", "1", "1", "6", "3">>)>>,
         <<d>>,
         <<n, Code(3333016, 10), Code(4, 1)>>, <<n, Code(3333016, 10)>>,
         <<x, Str(<<"5", "d", "a", "b", "a", "d", "e", "1", "1", "2", "d", "d">>)>>,
         <<Code(3, 1)>>, <<Str(<<"x">>)>>}

\* The locals of the functions on the call stack; the frame of the running
\* get_menu_choice call (caller, bounds, the lines it has read, the reads it
\* has made at the end of the input, the prompts it has printed); and the
\* returns of get_menu_choice so far.
NoLocal ==
    [serial_number |-> <<>>, option_key |-> <<>>, selection |-> 0, option_number |-> -1,
     product_code |-> -1, assume_escope |-> FALSE, interactive |-> FALSE,
     product_code_str |-> <<>>, option_str |-> <<>>, prod_code |-> <<>>, opt_code |-> <<>>,
     caller |-> "none", min_val |-> 0, max_val |-> 0, lines |-> <<>>, ends |-> 0,
     prompts |-> 0, returns |-> <<>>]

\* strncpy(dst, src, n); dst[n] = '\0'
strncpy(src, n) == SubSeq(src, 1, IF Len(src) < n THEN Len(src) ELSE n)

\* The mode flags of main (C++).  Yields the locals and how the parsing
\* ended: "ok", "return1" (unknown option) or "terminate" (std::stoi threw
\* outside a try block).
main_arguments(args) ==
    IF Len(args) = 0 THEN [how |-> "ok", local |-> NoLocal]
    ELSE
        LET arg1 == args[1]
            sel  == IF arg1 = Str(<<"-", "n">>) THEN 1
                    ELSE IF arg1 = Str(<<"-", "x">>) THEN 2
                    ELSE IF arg1 \in {Str(<<"-", "e">>), Str(<<"-", "l">>)} THEN 3
                    ELSE IF arg1 = Str(<<"-", "d">>) THEN 4
                    ELSE stoi(arg1).value
            flag == arg1 \in {Str(<<"-", "n">>), Str(<<"-", "x">>), Str(<<"-", "e">>),
                              Str(<<"-", "l">>), Str(<<"-", "d">>)}
            mode == [NoLocal EXCEPT
                        !.selection = sel,
                        !.product_code = IF arg1 = Str(<<"-", "e">>) THEN 6963
                                         ELSE IF arg1 = Str(<<"-", "l">>) THEN 7001 ELSE -1,
                        !.assume_escope = arg1 \in {Str(<<"-", "e">>), Str(<<"-", "l">>)}]
            key  == IF Len(args) > 1 /\ sel \in {4, 2} THEN args[2] ELSE <<>>
            ser  == IF Len(args) > 1 /\ sel \notin {4, 2} THEN args[2] ELSE <<>>
        IN  IF ~flag /\ ~stoi(arg1).ok THEN [how |-> "return1", local |-> NoLocal]
            ELSE IF \/ (Len(args) > 2 /\ ~stoi(args[3]).ok)
                    \/ (Len(args) > 3 /\ ~stoi(args[4]).ok)
            THEN [how |-> "terminate", local |-> mode]
            ELSE [how |-> "ok",
                  local |-> [mode EXCEPT
                      !.option_key = key,
                      !.serial_number = ser,
                      !.option_number = IF Len(args) > 2 THEN stoi(args[3]).value
                                        ELSE mode.option_number,
                      !.product_code = IF Len(args) > 3 THEN stoi(args[4]).value
                                       ELSE mode.product_code]]

\* The mode flags of run_enigma_cli (C): -l does not set assume_escope, the
\* numbers are read with atoi and the strings are cut by strncpy.
run_enigma_cli_arguments(args) ==
    IF Len(args) = 0 THEN [how |-> "ok", local |-> NoLocal]
    ELSE
        LET arg1 == args[1]
            sel  == IF arg1 = Str(<<"-", "n">>) THEN 1
                    ELSE IF arg1 = Str(<<"-", "x">>) THEN 2
                    ELSE IF arg1 \in {Str(<<"-", "e">>), Str(<<"-", "l">>)} THEN 3
                    ELSE IF arg1 = Str(<<"-", "d">>) THEN 4
                    ELSE atoi(arg1)
            mode == [NoLocal EXCEPT
                        !.selection = sel,
                        !.product_code = IF arg1 = Str(<<"-", "e">>) THEN 6963
                                         ELSE IF arg1 = Str(<<"-", "l">>) THEN 7001 ELSE -1,
                        !.assume_escope = arg1 = Str(<<"-", "e">>)]
        IN  [how |-> "ok",
             local |-> [mode EXCEPT
                 !.option_key = IF Len(args) > 1 /\ sel = 4 THEN strncpy(args[2], 16)
                                ELSE IF Len(args) > 1 /\ sel = 2 THEN strncpy(args[2], 12)
                                ELSE <<>>,
                 !.serial_number = IF Len(args) > 1 /\ sel \notin {4, 2}
                                   THEN strncpy(args[2], IF sel = 1 THEN 10 ELSE 7)
                                   ELSE <<>>,
                 !.option_number = IF Len(args) > 2 THEN atoi(args[3]) ELSE mode.option_number,
                 !.product_code = IF Len(args) > 3 THEN atoi(args[4]) ELSE mode.product_code]]

\* One piece of output: the text printed and the value printed after it.
Out(text, value) == [text |-> text, value |-> value]

\* The program is at position a, about to read standard input.
Running(a, l, o) == [at |-> a, local |-> l, stdout |-> o, exit_status |-> "running"]

\* The program has ended: "0" / "1" (return from main or exit(1)),
\* "terminate" (an exception left main) or "crash".
Ended(how, l, o) == [at |-> "ended", local |-> l, stdout |-> o, exit_status |-> how]

(***************************************************************************)
(* Standard input.  reads: the lines taken so far; pending: what a short   *)
(* fgets buffer left of the current line (<<>> or one string, its newline  *)
(* not included); eof: the end of the input has been met; spins: the reads *)
(* made at the end of the input.                                           *)
(***************************************************************************)
\* The reads at the end of the input that are followed.
MaxSpins == 2

\* std::getline(std::cin, input): the whole of the line the environment
\* supplies, or the empty string and a failed stream at the end of the input.
getline(in) ==
    {[ok |-> TRUE, text |-> line, stdin |-> [in EXCEPT !.reads = @ + 1]] :
         line \in IF ~in.eof /\ in.reads < MaxLines THEN Lines ELSE {}}
        \cup {[ok |-> FALSE, text |-> <<>>, stdin |-> [in EXCEPT !.eof = TRUE, !.spins = @ + 1]]}

\* fgets(buf, n, stdin) followed by buf[strcspn(buf, "\n")] = '\0': at most
\* n - 1 characters of the line, the newline among them if it fits; the rest
\* stays in the stream.
fgets_of(line, n, in) ==
    IF Len(line) + 1 <= n - 1
    THEN [ok |-> TRUE, text |-> line, stdin |-> [in EXCEPT !.pending = <<>>]]
    ELSE [ok |-> TRUE, text |-> SubSeq(line, 1, n - 1),
          stdin |-> [in EXCEPT !.pending = <<SubSeq(line, n, Len(line))>>]]

\* fgets returns NULL at the end of the input.
fgets(n, in) ==
    IF in.pending # <<>>
    THEN {fgets_of(in.pending[1], n, in)}
    ELSE {fgets_of(line, n, [in EXCEPT !.reads = @ + 1]) :
              line \in IF ~in.eof /\ in.reads < MaxLines THEN Lines ELSE {}}
             \cup {[ok |-> FALSE, text |-> <<>>,
                    stdin |-> [in EXCEPT !.eof = TRUE, !.spins = @ + 1]]}

\* The read of one port: getline in C++, fgets with a buffer of n in C.
ReadLine(g, n, in) == IF g = "c" THEN fgets(n, in) ELSE getline(in)

\* The digits std::stoi and sscanf("%d") convert: the longest run of digits
\* after the blanks and the sign, without its leading zeros.
ChoiceDigits(input) ==
    LET i0   == SkipSpace(input, 1)
        i1   == IF i0 <= Len(input) /\ (input[i0] = 43 \/ input[i0] = 45) THEN i0 + 1 ELSE i0
        stop == {k \in i1..Len(input) : ~isdigit(input[k])}
        last == IF stop = {} THEN Len(input)
                ELSE (CHOOSE k \in stop : \A j \in stop : k <= j) - 1
        d    == SubSeq(input, i1, last)
        nz   == {k \in 1..Len(d) : d[k] # 48}
    IN  IF nz = {} THEN (IF d = <<>> THEN <<>> ELSE <<48>>)
        ELSE SubSeq(d, CHOOSE k \in nz : \A j \in nz : k <= j, Len(d))

\* The number written by the digits lies in INT_MIN..INT_MAX
\* (-2147483648..2147483647).
FitsInt(input) ==
    LET d   == ChoiceDigits(input)
        i0  == SkipSpace(input, 1)
        neg == i0 <= Len(input) /\ input[i0] = 45
    IN  \/ Len(d) <= 9
        \/ /\ Len(d) = 10
           /\ LET head == ParseDigits(SubSeq(d, 1, 9), 1, 0)
              IN  \/ head < 214748364
                  \/ head = 214748364 /\ d[10] <= (IF neg THEN 56 ELSE 55)

\* choice = std::stoi(input) inside try: the leading integer, or a throw
\* (std::invalid_argument, std::out_of_range) that the catch turns into
\* "Invalid input".
stoi_choice(input) ==
    IF ChoiceDigits(input) # <<>> /\ FitsInt(input)
    THEN {[ok |-> TRUE, value |-> stoi(input).value]}
    ELSE {[ok |-> FALSE, value |-> 0]}

\* sscanf(input, "%d", &choice): the leading integer; a number that does not
\* fit the int is undefined behaviour, the int is left with some value.
sscanf_choice(input) ==
    IF ChoiceDigits(input) = <<>> THEN {[ok |-> FALSE, value |-> 0]}
    ELSE IF FitsInt(input) THEN {[ok |-> TRUE, value |-> stoi(input).value]}
    ELSE {[ok |-> TRUE, value |-> v] : v \in {-2147483647, -1, 0, 1, 8, 9, 2147483647}}

\* if (choice >= min_val && choice <= max_val) return choice; with the upper
\* test dropped.
InRange_NoUpper(choice, min_val, max_val) == choice >= min_val

\* if (choice >= min_val && choice <= max_val) return choice;
InRange(choice, min_val, max_val) == choice >= min_val /\ choice <= max_val

\* The call get_menu_choice("Choose your option: ", min_val, max_val) up to
\* its first read.
get_menu_choice(caller, min_val, max_val, l, o) ==
    Running("get_menu_choice",
            [l EXCEPT !.caller = caller, !.min_val = min_val, !.max_val = max_val,
                      !.lines = <<>>, !.ends = 0, !.prompts = 1],
            o \o <<Out("Choose your option: ", <<>>)>>)

\* main_menu() up to the read of the choice.
main_menu(l, o) ==
    get_menu_choice("main_menu", 0, 4, [l EXCEPT !.interactive = TRUE],
                    o \o <<Out("--- Enigma Main Menu ---", <<>>)>>)

\* The operation returned to main: back to the main menu inside
\* while (main_menu()), or return 0.
OperationDone(l, o) ==
    IF l.interactive THEN main_menu(l, o) ELSE Ended("0", l, o)

\* A call of the engine that does not return ends the program.
EngineEnded(e, l, o) ==
    Ended(IF e.outcome = "exit" THEN "1"
          ELSE IF e.outcome = "throw" THEN "terminate" ELSE "crash", l, o)

(***************************************************************************)
(* NetTool 10/100 keys (selections 1 and 2)                                *)
(***************************************************************************)
IsSerial(s, size) == Len(s) = size /\ AllDigits(s)

\* calculate_nettool_option_key from "if (option_number < 0 || option_number > 9)"
\* to print_option_key.
NetToolGenerate(g, l, o) ==
    LET opt          == IF l.option_number < 0 \/ l.option_number > 9 THEN 0
                        ELSE l.option_number
        reversed_key == Reversed12(l.serial_number \o to_string(opt) \o <<48>>)
        e            == IF g = "c" THEN C_enigma_c_encrypt(reversed_key, 12)
                        ELSE enigma_c_encrypt(reversed_key, 12)
        o2           == o \o <<Out("Encrypting with Enigma 1...", <<>>)>>
    IN  IF e.outcome # "return" THEN EngineEnded(e, l, o2)
        ELSE OperationDone(l, o2 \o <<Out("Option Key:", e.output_key)>>)

\* calculate_nettool_option_key once serial_number is not empty.
NetToolSerialKnown(g, l, o) ==
    IF ~IsSerial(l.serial_number, SERIAL_NUMBER_SIZE_ENIGMAC) THEN Ended("1", l, o)
    ELSE IF l.option_number < 0
    THEN Running("option_number_prompt", [l EXCEPT !.caller = "calculate_nettool_option_key"],
                 o \o <<Out("Enter Option Number (1 digit): ", <<>>)>>)
    ELSE NetToolGenerate(g, l, o)

cli_calculate_nettool_option_key(g, l, o) ==
    IF l.serial_number = <<>>
    THEN Running("serial_prompt", [l EXCEPT !.caller = "calculate_nettool_option_key"],
                 o \o <<Out("Enter Serial Number (10 digits): ", <<>>)>>)
    ELSE NetToolSerialKnown(g, l, o)

\* check_nettool_option_key once option_key is not empty.
NetToolKeyKnown(l, o) ==
    IF Len(l.option_key) # 12 \/ \E i \in 1..Len(l.option_key) : ~isxdigit(l.option_key[i])
    THEN Ended("1", l, o)
    ELSE Running("option_number_prompt", [l EXCEPT !.caller = "check_nettool_option_key"],
                 o \o <<Out("Enter Option Number (1 digit): ", <<>>)>>)

\* check_nettool_option_key once the serial number has been read.
NetToolCheckSerialKnown(l, o) ==
    IF l.option_key = <<>>
    THEN Running("option_key_prompt", [l EXCEPT !.caller = "check_nettool_option_key"],
                 o \o <<Out("Enter Option Key (12 hex digits): ", <<>>)>>)
    ELSE NetToolKeyKnown(l, o)

\* check_nettool_option_key from the call of the engine to its end.
NetToolCheck(g, l, o) ==
    LET opt == IF l.option_number < 0 \/ l.option_number > 9 THEN 0 ELSE l.option_number
        c   == IF g = "c" THEN C_enigma_c_check_option_key(opt, l.option_key, l.serial_number)
               ELSE enigma_c_check_option_key(opt, l.option_key, l.serial_number)
        o2  == o \o <<Out("EnigmaC::checkOptionKey()...", <<>>)>>
    IN  IF c.outcome # "return" THEN EngineEnded(c, l, o2)
        ELSE OperationDone(l, o2 \o <<Out(IF c.ret = "true" THEN "Option valid"
                                          ELSE "Option invalid", <<>>)>>)

(***************************************************************************)
(* Keys of the other products (selections 3 and 4)                         *)
(***************************************************************************)
\* product_code_menu up to the read of the product choice.
product_code_menu(l, o) ==
    get_menu_choice("product_code_menu", 0, 8, l,
                    o \o <<Out("--- Product Code Menu ---", <<>>)>>)

\* calculate_enigma2_option_key from the assembly of input_key to
\* print_option_key; snprintf(input_key, 17, ...) keeps 16 characters in C.
Enigma2Generate(g, l, o) ==
    LET whole     == <<48, 48>> \o l.product_code_str \o l.serial_number \o l.option_str
        key       == IF g = "c" THEN strncpy(whole, 16) ELSE whole
        e         == IF g = "c" THEN C_enigma2_c_encrypt(key) ELSE enigma2_c_encrypt(key)
        o2        == o \o <<Out("Encrypting with Enigma 2...", key)>>
    IN  IF e.outcome # "return" THEN EngineEnded(e, l, o2)
        ELSE OperationDone(l, o2 \o <<Out("Option Key:", e.output_key)>>)

\* calculate_enigma2_option_key once serial_number is not empty.
Enigma2SerialKnown(g, l, o) ==
    IF ~IsSerial(l.serial_number, SERIAL_NUMBER_SIZE_ENIGMA2) THEN Ended("1", l, o)
    ELSE
        LET o2 == o \o <<Out("SerialNum= ", l.serial_number)>>
        IN  IF l.product_code_str = <<>> \/ l.option_str = <<>> \/ ~l.assume_escope
            THEN product_code_menu(l, o2)
            ELSE Enigma2Generate(g, l, o2)

\* std::to_string(n) padded by std::string(width - length, '0'): a negative
\* count throws std::length_error.  snprintf(buf, width + 1, "%0*d", n) keeps
\* the first width characters.
PaddedCode(g, n, width) ==
    IF n < 0 THEN [ok |-> TRUE, str |-> <<>>]
    ELSE IF Len(to_string(n)) <= width THEN [ok |-> TRUE, str |-> ZeroPad(to_string(n), width)]
    ELSE IF g = "c" THEN [ok |-> TRUE, str |-> strncpy(to_string(n), width)]
    ELSE [ok |-> FALSE, str |-> <<>>]

cli_calculate_enigma2_option_key(g, l, o) ==
    LET p  == PaddedCode(g, l.product_code, PRODUCT_CODE_SIZE)
        n  == PaddedCode(g, l.option_number, OPTION_CODE_SIZE)
        l2 == [l EXCEPT !.product_code_str = p.str, !.option_str = n.str,
                        !.prod_code = <<>>, !.opt_code = <<>>]
    IN  IF ~p.ok \/ (l.option_number >= 0 /\ ~n.ok) THEN Ended("terminate", l, o)
        ELSE IF l.serial_number = <<>>
        THEN Running("serial_prompt", [l2 EXCEPT !.caller = "calculate_enigma2_option_key"],
                     o \o <<Out("Enter Serial Number (7 digits): ", <<>>)>>)
        ELSE Enigma2SerialKnown(g, l2, o)

\* product_code_menu returned false: "Operation cancelled." and return.
Cancelled(l, o) == OperationDone(l, o \o <<Out("Operation cancelled.", <<>>)>>)

\* product_code_menu returned true: the codes are copied and the key made.
MenuDone(g, l, o) ==
    Enigma2Generate(g, [l EXCEPT !.product_code_str = l.prod_code, !.option_str = l.opt_code], o)

\* product_code_menu after the product choice: PRODUCT_TABLE.at(choice - 1)
\* throws past the end in C++; the C array is read past its end.
ProductChosen(g, choice, l, o) ==
    IF choice = 0 THEN {Cancelled(l, o)}
    ELSE IF choice = 8
    THEN {Running("product_code_prompt", l, o \o <<Out("Enter Product Code (4 digits): ", <<>>)>>)}
    ELSE IF choice > Len(PRODUCT_TABLE)
    THEN {Ended(IF g = "c" THEN "crash" ELSE "terminate", l, o)}
    ELSE
        LET product == PRODUCT_TABLE[choice]
            l2      == [l EXCEPT !.prod_code = product.code]
        IN  IF OptionsOf(product.code) = <<>>
            THEN {Cancelled(l2, o \o <<Out("No options defined for ", <<>>)>>)}
            ELSE {get_menu_choice("options_menu", 0, 8, l2,
                                  o \o <<Out("--- Options for ", product.code)>>)}

\* product_code_menu after the option choice: options.at(opt_choice - 1)
\* throws past the end in C++; in C the entry past option_count holds a null
\* code and strncpy from it is undefined: the process is killed, or
\* option_code is left with some bytes.
OptionChosen(g, choice, l, o) ==
    LET options == OptionsOf(l.prod_code) IN
    IF choice = 0 THEN {Cancelled(l, o)}
    ELSE IF choice = 8
    THEN {Running("option_code_prompt", l, o \o <<Out("Enter Option Code (3 digits): ", <<>>)>>)}
    ELSE IF choice <= Len(options)
    THEN {MenuDone(g, [l EXCEPT !.opt_code = options[choice]], o)}
    ELSE IF g = "c"
    THEN {Ended("crash", l, o)}
             \cup {MenuDone(g, [l EXCEPT !.opt_code = code], o) : code \in {<<>>, Code(0, 3)}}
    ELSE {Ended("terminate", l, o)}

IsUpperAlnumString(s) ==
    \A i \in 1..Len(s) : isdigit(s[i]) \/ (s[i] >= 65 /\ s[i] <= 90)

\* check_enigma2_option_key once option_key is not empty.
Enigma2KeyKnown(g, l, o) ==
    IF Len(l.option_key) # 16 \/ ~IsUpperAlnumString(l.option_key) THEN Ended("1", l, o)
    ELSE
        LET d  == IF g = "c" THEN C_enigma2_c_decrypt(l.option_key, 0)
                  ELSE enigma2_c_decrypt(l.option_key)
            o2 == o \o <<Out("Decrypting with Enigma 2...", <<>>)>>
            decrypted_key == d.output_key
        IN  IF d.outcome # "return" THEN EngineEnded(d, l, o2)
            ELSE IF decrypted_key = <<>> THEN Ended("1", l, o2)
            ELSE
                LET product_code == substr(decrypted_key, PRODUCT_LOCATION, PRODUCT_CODE_SIZE)
                IN  OperationDone(l,
                        o2 \o <<Out("Product Code: ", product_code),
                                Out(ProductName(product_code), <<>>),
                                Out("SerialNumber: ",
                                    substr(decrypted_key, SERIAL_LOCATION,
                                           SERIAL_NUMBER_SIZE_ENIGMA2)),
                                Out("OptionNumber: ",
                                    substr(decrypted_key, OPTION_LOCATION, OPTION_CODE_SIZE))>>)

check_enigma2_option_key(g, l, o) ==
    IF l.option_key = <<>>
    THEN Running("option_key_prompt", [l EXCEPT !.caller = "check_enigma2_option_key"],
                 o \o <<Out("Enter Option Key (16 characters): ", <<>>)>>)
    ELSE Enigma2KeyKnown(g, l, o)

\* switch (selection) of main and switch (choice) of main_menu;
\* check_nettool_option_key always asks for the serial number first.
Dispatch(g, selection, l, o) ==
    IF selection = 1 THEN cli_calculate_nettool_option_key(g, l, o)
    ELSE IF selection = 2
    THEN Running("serial_prompt",
                 [l EXCEPT !.caller = "check_nettool_option_key", !.serial_number = <<>>],
                 o \o <<Out("Enter Serial Number (10 digits): ", <<>>)>>)
    ELSE IF selection = 3 THEN cli_calculate_enigma2_option_key(g, l, o)
    ELSE IF selection = 4 THEN check_enigma2_option_key(g, l, o)
    ELSE Ended(IF l.interactive THEN "0" ELSE "1", l, o)

\* main_menu after the choice: 0 ends while (main_menu()); the operations
\* start from fresh locals.
MainMenuChosen(g, choice, l, o) ==
    IF choice = 0 THEN Ended("0", l, o)
    ELSE Dispatch(g, choice,
                  [l EXCEPT !.serial_number = <<>>, !.option_key = <<>>,
                            !.option_number = -1, !.product_code = -1,
                            !.assume_escope = FALSE], o)

\* One turn of the loop of get_menu_choice on what the read r gave, the
\* input parsed as p: return to the caller, or a message and the prompt again.
get_menu_choice_turn(g, r, p, l, o) ==
    LET again == o \o <<Out("Choose your option: ", <<>>)>>
        l2    == [l EXCEPT !.lines = IF r.ok THEN Append(@, r.text) ELSE @,
                           !.ends = IF r.ok THEN @ ELSE @ + 1,
                           !.prompts = @ + 1]
    IN  IF ~r.ok /\ g = "c" THEN {Running("get_menu_choice", l2, again)}
        ELSE IF ~p.ok
        THEN {Running("get_menu_choice", l2,
                      o \o <<Out("Invalid input, please enter a number.", <<>>),
                             Out("Choose your option: ", <<>>)>>)}
        ELSE IF InRange(p.value, l.min_val, l.max_val)
        THEN LET l3 == [l EXCEPT !.lines = Append(@, r.text),
                                 !.returns = Append(@, [min_val |-> l.min_val,
                                                        max_val |-> l.max_val,
                                                        choice |-> p.value,
                                                        lines |-> Append(l.lines, r.text),
                                                        prompts |-> l.prompts])]
             IN  IF l.caller = "main_menu" THEN {MainMenuChosen(g, p.value, l3, o)}
                 ELSE IF l.caller = "product_code_menu" THEN ProductChosen(g, p.value, l3, o)
                 ELSE OptionChosen(g, p.value, l3, o)
        ELSE {Running("get_menu_choice", l2,
                      o \o <<Out("Invalid choice, please try again.", <<>>),
                             Out("Choose your option: ", <<>>)>>)}

(***************************************************************************)
(* The state machine: one engine call at a time.  A call made on the       *)
(* output of the previous call keeps that call's input in plain.           *)
(***************************************************************************)
EngineIdle ==
    /\ pc = "idle"
    /\ fn = "none"
    /\ calls = <<>>
    /\ input_key = <<>>
    /\ serial_number = <<>>
    /\ option = -1
    /\ product_number = -1
    /\ output_key = <<>>
    /\ ret = "none"
    /\ outcome = "none"
    /\ plain = <<>>
    /\ c_port = NoPort

\* No engine call has been made and no program is started.
Init ==
    /\ EngineIdle
    /\ lang = "none"
    /\ argv = <<>>
    /\ at = "off"
    /\ local = NoLocal
    /\ stdin = [reads |-> 0, pending |-> <<>>, eof |-> FALSE, spins |-> 0]
    /\ stdout = <<>>
    /\ exit_status = "none"

\* The state left by a call of f.
CalledFor(f, nested, in, serial, opt, product, out, r, how, prev) ==
    /\ pc' = "called"
    /\ fn' = f
    /\ calls' = <<f>> \o nested
    /\ input_key' = in
    /\ serial_number' = serial
    /\ option' = opt
    /\ product_number' = product
    /\ output_key' = out
    /\ ret' = r
    /\ outcome' = how
    /\ plain' = prev
    /\ c_port' \in C_Port(f, in, serial, opt)
    /\ UNCHANGED <<lang, argv, at, local, stdin, stdout, exit_status>>

Called(f, nested, in, serial, opt, out, r, how, prev) ==
    CalledFor(f, nested, in, serial, opt, -1, out, r, how, prev)

\* The previous call returned a string that can be fed to the next call.
Returned(f) == pc = "called" /\ fn = f /\ outcome = "return" /\ plain = <<>>

EnigmaCEncrypt ==
    /\ pc = "idle"
    /\ \E p \in HexInputs \cup LongHexInputs \cup DocumentedInputs :
        \E e \in {enigma_c_encrypt(p, 12)} :
            Called("enigma_c_encrypt", <<>>, p, <<>>, -1, e.output_key, "none", e.outcome, <<>>)

EnigmaCDecryptOutput ==
    /\ Returned("enigma_c_encrypt")
    /\ \E d \in {enigma_c_decrypt(output_key, 12)} :
           Called("enigma_c_decrypt", <<>>, output_key, <<>>, -1, d.output_key, "none",
                  d.outcome, input_key)

EnigmaCDecrypt ==
    /\ pc = "idle"
    /\ \E k \in HexInputs \cup LongHexInputs :
        \E d \in {enigma_c_decrypt(k, 12)} :
            Called("enigma_c_decrypt", <<>>, k, <<>>, -1, d.output_key, "none", d.outcome, <<>>)

EnigmaCEncryptOutput ==
    /\ Returned("enigma_c_decrypt")
    /\ \E e \in {enigma_c_encrypt(output_key, 12)} :
           Called("enigma_c_encrypt", <<>>, output_key, <<>>, -1, e.output_key, "none",
                  e.outcome, input_key)

CalculateNetToolOptionKey ==
    /\ pc = "idle"
    /\ \E s \in Serials10 \cup BadSerials, o \in NetToolOptions \cup {10} :
        \E g \in {calculate_nettool_option_key(s, o)} :
            Called("calculate_nettool_option_key", g.calls, g.input_key, s, o,
                   g.output_key, "none", g.outcome, <<>>)

\* The key just generated is presented for validation.
CheckNetToolIssued ==
    /\ Returned("calculate_nettool_option_key")
    /\ \E o \in CheckOptionsA, s \in CheckSerials :
        \E c \in {enigma_c_check_option_key(o, output_key, s)} :
            Called("enigma_c_check_option_key", c.calls, output_key, s, o,
                   c.output_key, c.ret, c.outcome, input_key)

CheckNetToolKey ==
    /\ pc = "idle"
    /\ \E k \in SpecialKeys \cup WrongLengthKeys \cup LetterOptionKeys,
          o \in CheckOptionsA, s \in CheckSerials :
        \E c \in {enigma_c_check_option_key(o, k, s)} :
            Called("enigma_c_check_option_key", c.calls, k, s, o,
                   c.output_key, c.ret, c.outcome, <<>>)

Enigma2Encrypt ==
    /\ pc = "idle"
    /\ \E p \in Plain16Inputs \cup WrongLength16(Prefix(Plain16Samples, NumPlain16)) :
        \E e \in {enigma2_c_encrypt(p)} :
            Called("enigma2_c_encrypt", <<>>, p, <<>>, -1, e.output_key, "none", e.outcome, <<>>)

Enigma2DecryptOutput ==
    /\ Returned("enigma2_c_encrypt")
    /\ \E d \in {enigma2_c_decrypt(output_key)} :
           Called("enigma2_c_decrypt", <<>>, output_key, <<>>, -1, d.output_key, "none",
                  d.outcome, input_key)

Enigma2Decrypt ==
    /\ pc = "idle"
    /\ \E k \in Key16Inputs \cup WrongLength16(Prefix(Key16Samples, NumKeys16)) :
        \E d \in {enigma2_c_decrypt(k)} :
            Called("enigma2_c_decrypt", <<>>, k, <<>>, -1, d.output_key, "none", d.outcome, <<>>)

Enigma2EncryptOutput ==
    /\ Returned("enigma2_c_decrypt")
    /\ output_key # <<>>
    /\ \E e \in {enigma2_c_encrypt(output_key)} :
           Called("enigma2_c_encrypt", <<>>, output_key, <<>>, -1, e.output_key, "none",
                  e.outcome, input_key)

CalculateEnigma2OptionKey ==
    /\ pc = "idle"
    /\ \E s \in Serials7 \cup BadSerials, o \in OptionNumbers, p \in ProductCodes :
        \E g \in {calculate_enigma2_option_key(s, o, p)} :
            CalledFor("calculate_enigma2_option_key", g.calls, g.input_key, s, o, p,
                      g.output_key, "none", g.outcome, <<>>)

\* The key just generated is presented for validation.
CheckEnigma2Issued ==
    /\ Returned("calculate_enigma2_option_key")
    /\ \E n \in CheckOptionsB :
        \E c \in {enigma2_c_check_option_key(n, output_key)} :
            Called("enigma2_c_check_option_key", c.calls, output_key, <<>>, n,
                   c.output_key, c.ret, c.outcome, input_key)

CheckEnigma2Key ==
    /\ pc = "idle"
    /\ \E k \in Key16Inputs \cup WrongLength16(Prefix(Key16Samples, NumKeys16)) \cup {<<>>},
          n \in OptionProbes :
        \E c \in {enigma2_c_check_option_key(n, k)} :
            Called("enigma2_c_check_option_key", c.calls, k, <<>>, n,
                   c.output_key, c.ret, c.outcome, <<>>)

\* The next invocation starts afresh: the engines keep no state across calls.
Reset ==
    /\ pc = "called"
    /\ pc' = "idle"
    /\ fn' = "none"
    /\ calls' = <<>>
    /\ input_key' = <<>>
    /\ serial_number' = <<>>
    /\ option' = -1
    /\ product_number' = -1
    /\ output_key' = <<>>
    /\ ret' = "none"
    /\ outcome' = "none"
    /\ plain' = <<>>
    /\ c_port' = NoPort
    /\ UNCHANGED <<lang, argv, at, local, stdin, stdout, exit_status>>

Next ==
    \/ EnigmaCEncrypt
    \/ EnigmaCDecryptOutput
    \/ EnigmaCDecrypt
    \/ EnigmaCEncryptOutput
    \/ CalculateNetToolOptionKey
    \/ CheckNetToolIssued
    \/ CheckNetToolKey
    \/ Enigma2Encrypt
    \/ Enigma2DecryptOutput
    \/ Enigma2Decrypt
    \/ Enigma2EncryptOutput
    \/ CalculateEnigma2OptionKey
    \/ CheckEnigma2Issued
    \/ CheckEnigma2Key
    \/ Reset

Spec == Init /\ [][Next]_vars

TypeOK ==
    /\ pc \in {"idle", "called"}
    /\ ret \in {"none", "true", "false"}
    /\ outcome \in {"none", "return", "exit", "throw"}

(***************************************************************************)
(* The program as a state machine: one action per read of standard input,  *)
(* each running the code from the read to the next read or to the end.     *)
(***************************************************************************)
\* The program of one port is started on a command line.
CliInit ==
    /\ EngineIdle
    /\ lang \in {"cpp", "c"}
    /\ argv \in Argvs
    /\ at = "main"
    /\ local = NoLocal
    /\ stdin = [reads |-> 0, pending |-> <<>>, eof |-> FALSE, spins |-> 0]
    /\ stdout = <<>>
    /\ exit_status = "running"

\* The program moves to the configuration cfg.
Go(cfg) ==
    /\ at' = cfg.at
    /\ local' = cfg.local
    /\ stdout' = cfg.stdout
    /\ exit_status' = cfg.exit_status
    /\ UNCHANGED <<lang, argv>>
    /\ UNCHANGED <<pc, fn, calls, input_key, serial_number, option, product_number, output_key,
                   ret, outcome, plain, c_port>>

\* main / run_enigma_cli up to the first read.
Main ==
    /\ at = "main"
    /\ exit_status = "running"
    /\ UNCHANGED stdin
    /\ LET a == IF lang = "c" THEN run_enigma_cli_arguments(argv) ELSE main_arguments(argv)
           l == a.local
       IN  Go(IF a.how = "return1" THEN Ended("1", l, stdout)
              ELSE IF a.how = "terminate" THEN Ended("terminate", l, stdout)
              ELSE IF l.selection < 1 \/ l.selection > 4 THEN main_menu(l, stdout)
              ELSE Dispatch(lang, l.selection, l, stdout))

\* The loop of get_menu_choice: char input[32] in C.
GetMenuChoice ==
    /\ at = "get_menu_choice"
    /\ exit_status = "running"
    /\ stdin.spins < MaxSpins
    /\ \E r \in ReadLine(lang, 32, stdin) :
        \E p \in IF lang = "c" THEN sscanf_choice(r.text) ELSE stoi_choice(r.text) :
            \E cfg \in get_menu_choice_turn(lang, r, p, local, stdout) :
                /\ stdin' = r.stdin
                /\ Go(cfg)

\* The "Enter Serial Number" loops of calculate_nettool_option_key,
\* check_nettool_option_key and calculate_enigma2_option_key; the C port
\* reads into buffers of 11, 32 and 8 characters.
EnterSerialNumber ==
    /\ at = "serial_prompt"
    /\ exit_status = "running"
    /\ stdin.spins < MaxSpins
    /\ \E r \in ReadLine(lang, IF local.caller = "calculate_nettool_option_key"
                                THEN SERIAL_NUMBER_SIZE_ENIGMAC + 1
                                ELSE IF local.caller = "calculate_enigma2_option_key"
                                THEN SERIAL_NUMBER_SIZE_ENIGMA2 + 1 ELSE 32, stdin) :
        LET size == IF local.caller = "calculate_enigma2_option_key"
                    THEN SERIAL_NUMBER_SIZE_ENIGMA2 ELSE SERIAL_NUMBER_SIZE_ENIGMAC
            text == IF size = 7 THEN "Enter Serial Number (7 digits): "
                    ELSE "Enter Serial Number (10 digits): "
            l    == IF ~r.ok /\ lang = "c" THEN local
                    ELSE [local EXCEPT !.serial_number = r.text]
        IN  /\ stdin' = r.stdin
            /\ Go(IF ~r.ok /\ lang = "c"
                  THEN Running("serial_prompt", l, stdout \o <<Out(text, <<>>)>>)
                  ELSE IF ~IsSerial(r.text, size)
                  THEN Running("serial_prompt", l,
                               stdout \o <<Out(IF size = 7
                                               THEN "Serial number must be 7 digits."
                                               ELSE "Serial number must be 10 digits.", <<>>),
                                           Out(text, <<>>)>>)
                  ELSE IF local.caller = "calculate_nettool_option_key"
                  THEN NetToolSerialKnown(lang, l, stdout)
                  ELSE IF local.caller = "check_nettool_option_key"
                  THEN NetToolCheckSerialKnown(l, stdout)
                  ELSE Enigma2SerialKnown(lang, l, stdout))

\* The single read of "Enter Option Number (1 digit): ", option_number =
\* (input.length() > 0 && isdigit(input.at(0))) ? input.at(0) - '0' : 0; at
\* the end of the input the C port exits, the C++ port takes option 0.
EnterOptionNumber ==
    /\ at = "option_number_prompt"
    /\ exit_status = "running"
    /\ stdin.spins < MaxSpins
    /\ \E r \in ReadLine(lang, 32, stdin) :
        LET l == [local EXCEPT !.option_number =
                      IF Len(r.text) > 0 /\ isdigit(r.text[1]) THEN r.text[1] - 48 ELSE 0]
        IN  /\ stdin' = r.stdin
            /\ Go(IF ~r.ok /\ lang = "c" THEN Ended("1", local, stdout)
                  ELSE IF local.caller = "calculate_nettool_option_key"
                  THEN NetToolGenerate(lang, l, stdout)
                  ELSE NetToolCheck(lang, l, stdout))

\* The "Enter Option Key" loops of check_nettool_option_key (12 hex digits,
\* fgets of 13) and check_enigma2_option_key (16 characters, fgets of 17).
EnterOptionKey ==
    /\ at = "option_key_prompt"
    /\ exit_status = "running"
    /\ stdin.spins < MaxSpins
    /\ LET nettool == local.caller = "check_nettool_option_key"
           text    == IF nettool THEN "Enter Option Key (12 hex digits): "
                      ELSE "Enter Option Key (16 characters): "
       IN  \E r \in ReadLine(lang, IF nettool THEN 13 ELSE 17, stdin) :
            LET l == IF ~r.ok /\ lang = "c" THEN local
                     ELSE [local EXCEPT !.option_key = r.text]
            IN  /\ stdin' = r.stdin
                /\ Go(IF ~r.ok /\ lang = "c"
                      THEN Running("option_key_prompt", l, stdout \o <<Out(text, <<>>)>>)
                      ELSE IF nettool /\ Len(r.text) = 12 /\ \A i \in 1..12 : isxdigit(r.text[i])
                      THEN NetToolKeyKnown(l, stdout)
                      ELSE IF ~nettool /\ Len(r.text) = 16 /\ IsUpperAlnumString(r.text)
                      THEN Enigma2KeyKnown(lang, l, stdout)
                      ELSE Running("option_key_prompt", l,
                                   stdout \o <<Out("Option key must be", <<>>),
                                               Out(text, <<>>)>>))

\* The "Enter Product Code (4 digits)" loop of product_code_menu.
EnterProductCode ==
    /\ at = "product_code_prompt"
    /\ exit_status = "running"
    /\ stdin.spins < MaxSpins
    /\ \E r \in ReadLine(lang, 32, stdin) :
        /\ stdin' = r.stdin
        /\ Go(IF ~r.ok /\ lang = "c"
              THEN Running("product_code_prompt", local,
                           stdout \o <<Out("Enter Product Code (4 digits): ", <<>>)>>)
              ELSE IF IsSerial(r.text, 4)
              THEN Running("option_code_prompt", [local EXCEPT !.prod_code = r.text],
                           stdout \o <<Out("Enter Option Code (3 digits): ", <<>>)>>)
              ELSE Running("product_code_prompt", local,
                           stdout \o <<Out("Product code must be 4 digits.", <<>>),
                                       Out("Enter Product Code (4 digits): ", <<>>)>>))

\* The "Enter Option Code (3 digits)" loops of product_code_menu.
EnterOptionCode ==
    /\ at = "option_code_prompt"
    /\ exit_status = "running"
    /\ stdin.spins < MaxSpins
    /\ \E r \in ReadLine(lang, 32, stdin) :
        /\ stdin' = r.stdin
        /\ Go(IF ~r.ok /\ lang = "c"
              THEN Running("option_code_prompt", local,
                           stdout \o <<Out("Enter Option Code (3 digits): ", <<>>)>>)
              ELSE IF IsSerial(r.text, 3)
              THEN MenuDone(lang, [local EXCEPT !.opt_code = r.text], stdout)
              ELSE Running("option_code_prompt", local,
                           stdout \o <<Out("Option code must be 3 digits.", <<>>),
                                       Out("Enter Option Code (3 digits): ", <<>>)>>))

CliNext ==
    \/ Main
    \/ GetMenuChoice
    \/ EnterSerialNumber
    \/ EnterOptionNumber
    \/ EnterOptionKey
    \/ EnterProductCode
    \/ EnterOptionCode

CliSpec == CliInit /\ [][CliNext]_vars

(***************************************************************************)
(* Properties                                                              *)
(***************************************************************************)
IsHexString(s) == Len(s) = 12 /\ \A i \in 1..12 : isxdigit(s[i])

Lowercased(s) == [i \in 1..Len(s) |-> tolower(s[i])]

IsUpperAlnum(c) == isdigit(c) \/ (c >= 65 /\ c <= 90)

\* Positions 2-15 of a 16-character string are digits or uppercase letters.
ValidPayload(s) == Len(s) = 16 /\ \A i \in 3..16 : IsUpperAlnum(s[i])

\* The decryption of the output of an encryption of plain has ended.
DecryptedBackA == pc = "called" /\ fn = "enigma_c_decrypt" /\ IsHexString(plain)

\* C1 as stated: for every valid 12-character hexadecimal plaintext P, of
\* either case, enigma_c_decrypt(enigma_c_encrypt(P)) == P.
C1_RoundTripExact == DecryptedBackA => (outcome = "return" /\ output_key = plain)

\* C1, amended: for every valid 12-character hexadecimal plaintext P,
\* enigma_c_decrypt(enigma_c_encrypt(P)) returns P with its letters in lower
\* case (P itself when P has no uppercase letter).
C1_RoundTripLowercased ==
    DecryptedBackA => (outcome = "return" /\ output_key = Lowercased(plain))

C1_Witness ==
    /\ DecryptedBackA
    /\ \E i \in 1..12 : plain[i] >= 65 /\ plain[i] <= 70
    /\ \E i \in 1..12 : plain[i] >= 97 /\ plain[i] <= 102
    /\ output_key = Lowercased(plain)

\* The decryption of the output of an encryption of plain has ended.
DecryptedBackB == pc = "called" /\ fn = "enigma2_c_decrypt" /\ ValidPayload(plain)

\* C2: for every 16-character plaintext P whose positions 2-15 are digits or
\* uppercase letters, enigma2_c_decrypt(enigma2_c_encrypt(P)) is non-empty,
\* equals P on positions 2-15 and carries at positions 0 and 1 the ones and
\* tens digits of the checksum 100 - (sum mod 100) that the encryption wrote.
C2_RoundTripB ==
    DecryptedBackB =>
        /\ outcome = "return"
        /\ Len(output_key) = 16
        /\ \A i \in 3..16 : output_key[i] = plain[i]
        /\ output_key[1] = 48 + (Enigma2Checksum(plain) % 10)
        /\ output_key[2] = 48 + ((Enigma2Checksum(plain) \div 10) % 10)

C2_Witness ==
    /\ DecryptedBackB
    /\ \E i \in 3..16 : plain[i] >= 65
    /\ \E i \in 3..16 : isdigit(plain[i])
    /\ Len(output_key) = 16
    /\ output_key[2] # 48

\* A key generated for serial_number and option is being validated against them.
ValidatingIssuedA ==
    /\ pc = "called"
    /\ fn = "enigma_c_check_option_key"
    /\ option \in 0..9
    /\ Len(serial_number) = 10
    /\ AllDigits(serial_number)
    /\ plain = Reversed12(serial_number \o <<48 + option, 48>>)

\* C3: for every 10-digit serial S and option o in 0..9, with
\* K = enigma_c_encrypt(reverse(S + o + "0")) as calculate_nettool_option_key
\* builds it, enigma_c_check_option_key(o, K, S) returns true.
C3_IssuedKeyAccepted == ValidatingIssuedA => (outcome = "return" /\ ret = "true")


\* String literals of the known vectors.
S_0003333016 == Str(<<"0", "0", "0", "3", "3", "3", "3", "0", "1", "6">>)
S_046103333000 == Str(<<"0", "4", "6", "1", "0", "3", "3", "3", "3", "0", "0", "0">>)
S_5dabade112dd == Str(<<"5", "d", "a", "b", "a", "d", "e", "1", "1", "2", "d", "d">>)
S_0000607 == Str(<<"0", "0", "0", "0", "6", "0", "7">>)
S_1234567 == Str(<<"1", "2", "3", "4", "5", "6", "7">>)
S_0069630000607007 == Str(<<"0", "0", "6", "9", "6", "3", "0", "0", "0", "0", "6", "0", "7", "0", "0", "7">>)
S_6406257948597747 == Str(<<"6", "4", "0", "6", "2", "5", "7", "9", "4", "8", "5", "9", "7", "7", "4", "7">>)
S_0069631234567007 == Str(<<"0", "0", "6", "9", "6", "3", "1", "2", "3", "4", "5", "6", "7", "0", "0", "7">>)
S_9225940719507747 == Str(<<"9", "2", "2", "5", "9", "4", "0", "7", "1", "9", "5", "0", "7", "7", "4", "7">>)
S_0070011234567002 == Str(<<"0", "0", "7", "0", "0", "1", "1", "2", "3", "4", "5", "6", "7", "0", "0", "2">>)
S_8944937150971162 == Str(<<"8", "9", "4", "4", "9", "3", "7", "1", "5", "0", "9", "7", "1", "1", "6", "2">>)
S_0030011234567004 == Str(<<"0", "0", "3", "0", "0", "1", "1", "2", "3", "4", "5", "6", "7", "0", "0", "4">>)
S_8042745901759933 == Str(<<"8", "0", "4", "2", "7", "4", "5", "9", "0", "1", "7", "5", "9", "9", "3", "3">>)
S_6963 == Str(<<"6", "9", "6", "3">>)
S_7001 == Str(<<"7", "0", "0", "1">>)
S_007 == Str(<<"0", "0", "7">>)
S_002 == Str(<<"0", "0", "2">>)

\* A Cipher-B key generated from plain is being validated.
ValidatingIssuedB ==
    /\ pc = "called"
    /\ fn = "enigma2_c_check_option_key"
    /\ Len(plain) = 16
    /\ AllDigits(plain)

\* The integer value of the 3-digit option code at positions 13-15.
OptionValue(s) == (100 * (s[14] - 48)) + (10 * (s[15] - 48)) + (s[16] - 48)

\* C4: for every 4-digit product, 7-digit serial and 3-digit option code o,
\* with K = enigma2_c_encrypt("00" + product + serial + o),
\* enigma2_c_check_option_key(n, K) is true when n is the integer value of o
\* and false for every other n in 0..999.
C4_ValidationSymmetry ==
    ValidatingIssuedB =>
        /\ outcome = "return"
        /\ plain[1] = 48 /\ plain[2] = 48
        /\ ret = (IF option = OptionValue(plain) THEN "true" ELSE "false")

C4_Witness ==
    /\ ValidatingIssuedB
    /\ option = 7
    /\ OptionValue(plain) = 7
    /\ ret = "true"

\* calculate_nettool_option_key has been called for serial 0003333016, option 4.
NetToolVectorCall ==
    /\ pc = "called"
    /\ fn = "calculate_nettool_option_key"
    /\ serial_number = S_0003333016
    /\ option = 4

\* C5: generating a NetTool key for serial 0003333016 and option 4 encodes the
\* plaintext reverse("000333301640") = 046103333000 and yields 5dabade112dd.
C5_NetToolVector ==
    NetToolVectorCall =>
        /\ outcome = "return"
        /\ input_key = S_046103333000
        /\ output_key = S_5dabade112dd

C5_Witness == NetToolVectorCall /\ output_key = S_5dabade112dd

\* calculate_enigma2_option_key was called with this product, serial and option.
Enigma2Call(product, serial, opt) ==
    /\ pc = "called"
    /\ fn = "calculate_enigma2_option_key"
    /\ product_number = product
    /\ serial_number = serial
    /\ option = opt

\* C6: assembling "00" + product + serial + option and applying
\* enigma2_c_encrypt yields 6406257948597747 for (6963, 0000607, 007),
\* 9225940719507747 for (6963, 1234567, 007), 8944937150971162 for
\* (7001, 1234567, 002) and 8042745901759933 for (3001, 1234567, 004).
C6_Enigma2EncodeVectors ==
    /\ Enigma2Call(6963, S_0000607, 7) =>
           (input_key = S_0069630000607007 /\ output_key = S_6406257948597747)
    /\ Enigma2Call(6963, S_1234567, 7) =>
           (input_key = S_0069631234567007 /\ output_key = S_9225940719507747)
    /\ Enigma2Call(7001, S_1234567, 2) =>
           (input_key = S_0070011234567002 /\ output_key = S_8944937150971162)
    /\ Enigma2Call(3001, S_1234567, 4) =>
           (input_key = S_0030011234567004 /\ output_key = S_8042745901759933)

C6_Witness == Enigma2Call(3001, S_1234567, 4) /\ output_key = S_8042745901759933

\* enigma2_c_decrypt has been called on key.
Enigma2DecryptCall(key) == pc = "called" /\ fn = "enigma2_c_decrypt" /\ input_key = key

\* The fields check_enigma2_option_key reads from a decrypted key.
FieldsAre(decrypted, product, serial, opt) ==
    /\ Len(decrypted) = 16
    /\ substr(decrypted, PRODUCT_LOCATION, PRODUCT_CODE_SIZE) = product
    /\ substr(decrypted, SERIAL_LOCATION, SERIAL_NUMBER_SIZE_ENIGMA2) = serial
    /\ substr(decrypted, OPTION_LOCATION, OPTION_CODE_SIZE) = opt

\* C7: enigma2_c_decrypt("9225940719507747") is non-empty with product 6963,
\* serial 1234567 and option 007; enigma2_c_decrypt("8944937150971162") is
\* non-empty with product 7001, serial 1234567 and option 002.
C7_Enigma2DecodeVectors ==
    /\ Enigma2DecryptCall(S_9225940719507747) =>
           (outcome = "return" /\ FieldsAre(output_key, S_6963, S_1234567, S_007))
    /\ Enigma2DecryptCall(S_8944937150971162) =>
           (outcome = "return" /\ FieldsAre(output_key, S_7001, S_1234567, S_002))

C7_Witness ==
    /\ Enigma2DecryptCall(S_8944937150971162)
    /\ plain = <<>>
    /\ FieldsAre(output_key, S_7001, S_1234567, S_002)

\* C8: enigma_c_check_option_key(option, "bladerules", serial) returns true
\* for every option and every serial string without decoding the key; the
\* comparison is exact and case-sensitive (any other non-empty key is
\* decoded), and an empty key returns false.
C8_MasterBypass ==
    (pc = "called" /\ fn = "enigma_c_check_option_key") =>
        /\ input_key = BLADERULES =>
               (outcome = "return" /\ ret = "true" /\ calls = <<"enigma_c_check_option_key">>)
        /\ input_key = <<>> =>
               (outcome = "return" /\ ret = "false" /\ calls = <<"enigma_c_check_option_key">>)
        /\ input_key \notin {BLADERULES, <<>>} =>
               calls = <<"enigma_c_check_option_key", "enigma_c_decrypt">>

C8_Witness ==
    /\ pc = "called"
    /\ fn = "enigma_c_check_option_key"
    /\ input_key = BLADERULES
    /\ serial_number = <<>>
    /\ option = -1
    /\ ret = "true"

\* tbl holds every integer of 0..n-1 exactly once.
IsBijection(tbl, n) ==
    /\ Len(tbl) = n
    /\ \A v \in 0..(n - 1) : Cardinality({i \in 1..n : tbl[i] = v}) = 1

\* C9: each of the five rotor tables contains every integer of [0, length)
\* exactly once: ENIGMA_C_ROTOR (16), ENIGMA2_E_ROTOR_10 and
\* ENIGMA2_D_ROTOR_10 (10), ENIGMA2_E_ROTOR_26 and ENIGMA2_D_ROTOR_26 (26),
\* before and after every call (the tables are never written).
C9_RotorBijections ==
    pc \in {"idle", "called"} =>
    /\ IsBijection(ENIGMA_C_ROTOR, 16)
    /\ IsBijection(ENIGMA2_E_ROTOR_10, 10)
    /\ IsBijection(ENIGMA2_D_ROTOR_10, 10)
    /\ IsBijection(ENIGMA2_E_ROTOR_26, 26)
    /\ IsBijection(ENIGMA2_D_ROTOR_26, 26)

\* A round trip that went through the digit and the letter tables both ways.
C9_Witness ==
    /\ DecryptedBackB
    /\ \E i \in 3..16 : plain[i] >= 65
    /\ \E i \in 3..16 : isdigit(plain[i])
    /\ Len(output_key) = 16
    /\ IsBijection(ENIGMA2_E_ROTOR_26, 26)
    /\ IsBijection(ENIGMA2_D_ROTOR_26, 26)

IsUpperAlnumKey(s) == Len(s) = 16 /\ \A i \in 1..16 : IsUpperAlnum(s[i])

\* The decoded characters of a key, before the gate.
Decoded(key) == Enigma2DecodeLoop(key, 0, 0).output_key

\* Sum of i + d + i*d over positions i = from..15 of a decoded string, d the
\* value of the character (a digit's value, a letter's index).
RECURSIVE PositionSum(_, _)
PositionSum(decoded, from) ==
    IF from > 15 THEN 0
    ELSE LET d == IF isdigit(decoded[from + 1]) THEN decoded[from + 1] - 48
                  ELSE decoded[from + 1] - 65
         IN  from + d + (from * d) + PositionSum(decoded, from + 1)

\* The gate with position 1 taken as a value d (digit value or letter index).
GateFailsByValue(key) ==
    LET decoded == Decoded(key)
        d1      == IF isdigit(decoded[2]) THEN decoded[2] - 48 ELSE decoded[2] - 65
    IN  (PositionSum(decoded, 0) + (8 * d1)) % 100 # 0

\* The gate with position 1 taken as the character minus '0'.
GateFailsByChar(key) ==
    LET decoded == Decoded(key)
    IN  (PositionSum(decoded, 0) + (8 * (decoded[2] - 48))) % 100 # 0

\* C10 as stated: for every 16-character digit/uppercase key,
\* enigma2_c_decrypt returns the empty string exactly when the sum of
\* i + d + i*d over decoded positions 0-15 plus 8 times the decoded
\* position-1 digit d is not divisible by 100, and
\* enigma2_c_check_option_key then returns false; an empty key returns false.
C10_GateByValue ==
    /\ (pc = "called" /\ fn = "enigma2_c_decrypt" /\ IsUpperAlnumKey(input_key)) =>
           (outcome = "return" /\ (output_key = <<>> <=> GateFailsByValue(input_key)))
    /\ (pc = "called" /\ fn = "enigma2_c_check_option_key" /\ IsUpperAlnumKey(input_key)
            /\ GateFailsByValue(input_key)) =>
           (outcome = "return" /\ ret = "false")
    /\ (pc = "called" /\ fn = "enigma2_c_check_option_key" /\ input_key = <<>>) =>
           (outcome = "return" /\ ret = "false")

\* C10, amended: for every 16-character digit/uppercase key,
\* enigma2_c_decrypt returns the empty string exactly when the sum of
\* i + d + i*d over decoded positions 0-15 plus 8 times (the decoded
\* position-1 character minus '0': the digit's value for a digit, 17 plus the
\* letter index for a letter) is not divisible by 100, and
\* enigma2_c_check_option_key then returns false for every option; an empty
\* key also returns false.
C10_GateByChar ==
    /\ (pc = "called" /\ fn = "enigma2_c_decrypt" /\ IsUpperAlnumKey(input_key)) =>
           (outcome = "return" /\ (output_key = <<>> <=> GateFailsByChar(input_key)))
    /\ (pc = "called" /\ fn = "enigma2_c_check_option_key" /\ IsUpperAlnumKey(input_key)
            /\ GateFailsByChar(input_key)) =>
           (outcome = "return" /\ ret = "false")
    /\ (pc = "called" /\ fn = "enigma2_c_check_option_key" /\ input_key = <<>>) =>
           (outcome = "return" /\ ret = "false")

\* A key with a letter at position 1 that the gate lets through.
C10_Witness ==
    /\ pc = "called"
    /\ fn = "enigma2_c_decrypt"
    /\ IsUpperAlnumKey(input_key)
    /\ input_key[2] >= 65
    /\ ~GateFailsByChar(input_key)
    /\ output_key # <<>>

\* The keys that differ from key in exactly one position, by a decimal digit.
DigitMutations(key) == {[key EXCEPT ![i] = c] : i \in 1..16, c \in 48..57} \ {key}

\* The mutations of key that enigma2_c_decrypt does not answer with "".
AcceptedMutations(key) ==
    {m \in DigitMutations(key) : enigma2_c_decrypt(m).output_key # <<>>}

\* An all-digit plaintext has been encoded to output_key.
IssuedDigitKey ==
    /\ pc = "called"
    /\ fn \in {"enigma2_c_encrypt", "calculate_enigma2_option_key"}
    /\ outcome = "return"
    /\ Len(input_key) = 16
    /\ AllDigits(input_key)

\* C11: for every key K encoded from an all-digit plaintext, K is all digits
\* and of the 144 keys that replace exactly one character of K by a different
\* digit, strictly more make enigma2_c_decrypt return the empty string than
\* are accepted; every accepted one has a decoded checksum (position sum plus
\* 8 times the decoded position-1 character minus '0') divisible by 100.
C11_ChecksumRejection ==
    IssuedDigitKey =>
        /\ AllDigits(output_key)
        /\ Cardinality(DigitMutations(output_key)) = 144
        /\ 2 * Cardinality(AcceptedMutations(output_key)) < 144
        /\ \A m \in AcceptedMutations(output_key) : ~GateFailsByChar(m)

\* The key of (6963, 0000607, 007): 6 of its 144 mutations are accepted.
C11_Witness ==
    /\ IssuedDigitKey
    /\ output_key = S_6406257948597747
    /\ Cardinality(AcceptedMutations(output_key)) = 6

\* The characters 0-9, A-F and a-f.
HexDigitCodes == (48..57) \cup (65..70) \cup (97..102)

\* enigma_c_encrypt or enigma_c_decrypt was called with len = 12 on a string of
\* at least 12 characters.
CipherACall ==
    /\ pc = "called"
    /\ fn \in {"enigma_c_encrypt", "enigma_c_decrypt"}
    /\ Len(input_key) >= 12

\* C12: enigma_c_encrypt and enigma_c_decrypt end with the invalid-input error
\* (the process exits, no key is returned) whenever one of the first len = 12
\* characters of the input is not a hexadecimal digit, and return a key of len
\* characters when all of them are hex digits of either case, whatever follows
\* them.
C12_HexValidation ==
    CipherACall =>
        IF \E i \in 1..12 : input_key[i] \notin HexDigitCodes
        THEN outcome = "exit"
        ELSE outcome = "return" /\ Len(output_key) = 12

\* A key refused for its last character 'g'.
C12_Witness ==
    /\ CipherACall
    /\ fn = "enigma_c_decrypt"
    /\ input_key[12] = 103
    /\ \A i \in 1..11 : input_key[i] \in HexDigitCodes
    /\ outcome = "exit"

\* enigma2_c_encrypt or enigma2_c_decrypt was called on a 16-character string
\* with a character that is neither a digit nor an uppercase letter.
CipherBCallOutsideClass ==
    /\ pc = "called"
    /\ fn \in {"enigma2_c_encrypt", "enigma2_c_decrypt"}
    /\ Len(input_key) = 16
    /\ \E i \in 1..16 : ~IsUpperAlnum(input_key[i])

\* C13: enigma2_c_encrypt and enigma2_c_decrypt signal an invalid-input error,
\* instead of producing a key, whenever the 16-character input contains a
\* character that is neither a decimal digit nor an uppercase letter A-Z.
C13_ClassValidation == CipherBCallOutsideClass => outcome # "return"

\* A Cipher-B function was given a string whose length is not 16.
CipherBWrongLength ==
    /\ pc = "called"
    /\ fn \in {"enigma2_c_encrypt", "enigma2_c_decrypt", "enigma2_c_check_option_key"}
    /\ input_key # <<>>
    /\ Len(input_key) # 16

\* enigma_c_check_option_key was given a non-empty key other than the bypass
\* key whose length is not 12.
CheckWrongLengthA ==
    /\ pc = "called"
    /\ fn = "enigma_c_check_option_key"
    /\ input_key \notin {<<>>, BLADERULES}
    /\ Len(input_key) # 12

\* C14: enigma2_c_encrypt and enigma2_c_decrypt given a string whose length is
\* not 16, and enigma_c_check_option_key given a non-empty, non-bypass key
\* whose length is not 12, end with an error and never return a result
\* computed from a prefix of the key.
C14_WrongLengthRefused ==
    /\ CipherBWrongLength => outcome = "exit"
    /\ CheckWrongLengthA => outcome # "return"

\* enigma_c_check_option_key matched the serial number and extracted an option
\* substring that is not two decimal digits.
LetterOptionA ==
    /\ pc = "called"
    /\ fn = "enigma_c_check_option_key"
    /\ IsHexString(input_key)
    /\ Len(output_key) = 12
    /\ ReversedSerial(output_key) = serial_number
    /\ ~AllDigits(substr(output_key, 10, 2))

\* enigma2_c_check_option_key decoded a key that passed the gate and extracted
\* an option substring that is not three decimal digits.
LetterOptionB ==
    /\ pc = "called"
    /\ fn = "enigma2_c_check_option_key"
    /\ IsUpperAlnumKey(input_key)
    /\ Len(output_key) = 16
    /\ ~AllDigits(OptionField(output_key))

\* C15: whenever the option substring extracted by enigma_c_check_option_key
\* (last 2 decoded characters) or enigma2_c_check_option_key (decoded
\* positions 13-15) is not entirely decimal digits, the operation ends with an
\* error: it returns neither true nor false.
C15_OptionParsingLoud == (LetterOptionA \/ LetterOptionB) => outcome = "throw"

\* An engine function was called on arguments of the documented domain: a
\* 12-character hex key (with a 10-digit serial and an option 0..9 for the
\* check), or a 16-character string of digits and uppercase letters.
EngineCallInDomain ==
    /\ pc = "called"
    /\ \/ fn \in {"enigma_c_encrypt", "enigma_c_decrypt"} /\ IsHexString(input_key)
       \/ /\ fn = "enigma_c_check_option_key"
          /\ IsHexString(input_key)
          /\ Len(serial_number) = 10
          /\ AllDigits(serial_number)
          /\ option \in 0..9
       \/ /\ fn \in {"enigma2_c_encrypt", "enigma2_c_decrypt", "enigma2_c_check_option_key"}
          /\ IsUpperAlnumKey(input_key)

\* The C++ function and its C counterpart ended alike: the same output string
\* and boolean, or an error in both.
PortsAgree ==
    \/ /\ outcome = "return"
       /\ c_port.outcome = "return"
       /\ ret = c_port.ret
       /\ ret = "none" => output_key = c_port.output_key
    \/ /\ outcome # "return"
       /\ c_port.outcome # "return"

\* C16: for every 12-hex-character key, 10-digit serial, option 0..9 and every
\* 16-character digit/uppercase string, the C and the C++ versions of the six
\* engine functions produce the same outcome (same output string, same
\* boolean, or both an error).
C16_PortsIdentical == EngineCallInDomain => PortsAgree

S_610333300054 == Str(<<"6", "1", "0", "3", "3", "3", "3", "0", "0", "0", "5", "4">>)
S_a4a0da943060 == Str(<<"a", "4", "a", "0", "d", "a", "9", "4", "3", "0", "6", "0">>)

\* enigma_c_encrypt has been called on key with len = 12.
EnigmaCEncryptCall(key) == pc = "called" /\ fn = "enigma_c_encrypt" /\ input_key = key

Printed(text) == \E i \in 1..Len(stdout) : stdout[i].text = text

PrintedWith(text, value) ==
    \E i \in 1..Len(stdout) : stdout[i].text = text /\ stdout[i].value = value

\* The program waits at a read of standard input, or has read from it.
ReadsStdin == at \notin {"main", "ended"} \/ stdin.reads > 0 \/ stdin.spins > 0

\* The command line is -l SERIAL OPTION, SERIAL of 7 digits and OPTION a
\* number of at most 3 digits.
DashLRun ==
    /\ lang \in {"cpp", "c"}
    /\ Len(argv) = 3
    /\ argv[1] = Str(<<"-", "l">>)
    /\ IsSerial(argv[2], 7)
    /\ AllDigits(argv[3]) /\ Len(argv[3]) \in 1..3

\* The key of "00" + "7001" + SERIAL + 3-digit OPTION.
DashLKey ==
    enigma2_c_encrypt(<<48, 48>> \o Code(7001, 4) \o argv[2]
                          \o ZeroPad(to_string(stoi(argv[3]).value), 3)).output_key

\* C18: run as -l SERIAL OPTION, either port's program never enters
\* product_code_menu, never reads standard input, and once it has started
\* the operation it ends having printed the key of "00" + "7001" + SERIAL +
\* 3-digit OPTION.
C18_DashLNonInteractive ==
    DashLRun =>
        /\ ~Printed("--- Product Code Menu ---")
        /\ ~ReadsStdin
        /\ at = "ended" => exit_status = "0" /\ PrintedWith("Option Key:", DashLKey)

\* C18, the C++ port alone: its -l run ends with the key printed and
\* standard input untouched.
C18_CppDashL ==
    (DashLRun /\ lang = "cpp") =>
        /\ ~Printed("--- Product Code Menu ---")
        /\ ~ReadsStdin
        /\ at = "ended" => exit_status = "0" /\ PrintedWith("Option Key:", DashLKey)

\* The C++ run of -l 1234567 2 has printed 8944 9371 5097 1162.
C18_CppWitness ==
    /\ DashLRun /\ lang = "cpp" /\ at = "ended"
    /\ argv[2] = S_1234567
    /\ PrintedWith("Option Key:", S_8944937150971162)

\* The C run of -l 1234567 2 waits at the product menu.
C18_CMenuWitness ==
    /\ DashLRun /\ lang = "c"
    /\ at = "get_menu_choice" /\ local.caller = "product_code_menu"
    /\ Printed("--- Product Code Menu ---")

\* The numbers the port can read from the line as a menu choice.
ChoicesOf(line) ==
    {p.value : p \in {q \in (IF lang = "c" THEN sscanf_choice(line) ELSE stoi_choice(line)) :
                          q.ok}}

\* The line can be turned down by get_menu_choice(prompt, min_val, max_val):
\* it starts with no number, or with one outside min_val..max_val.
Rejected(line, min_val, max_val) ==
    \/ ChoiceDigits(line) = <<>>
    \/ ~FitsInt(line)
    \/ \E c \in ChoicesOf(line) : c < min_val \/ c > max_val

RECURSIVE PromptsOf(_)
PromptsOf(returns) ==
    IF returns = <<>> THEN 0 ELSE Head(returns).prompts + PromptsOf(Tail(returns))

\* How many times "Choose your option: " has been printed.
PromptsPrinted ==
    Cardinality({i \in 1..Len(stdout) : stdout[i].text = "Choose your option: "})

\* C19: every return of get_menu_choice(prompt, min_val, max_val) gives a c
\* with min_val <= c <= max_val, read from the line it accepted, whatever
\* rejected lines came before; each rejected line was answered by one more
\* prompt and by no return.
C19_MenuChoiceInRange ==
    /\ \A i \in 1..Len(local.returns) :
          LET r == local.returns[i] IN
          /\ r.min_val <= r.choice /\ r.choice <= r.max_val
          /\ r.lines # <<>>
          /\ r.choice \in ChoicesOf(r.lines[Len(r.lines)])
          /\ \A k \in 1..(Len(r.lines) - 1) : Rejected(r.lines[k], r.min_val, r.max_val)
          /\ r.prompts = Len(r.lines)
    /\ at = "get_menu_choice" =>
          /\ \A k \in 1..Len(local.lines) : Rejected(local.lines[k], local.min_val, local.max_val)
          /\ local.prompts = Len(local.lines) + 1 + local.ends
    /\ PromptsPrinted = PromptsOf(local.returns)
                            + (IF at = "get_menu_choice" THEN local.prompts ELSE 0)

\* get_menu_choice has returned 4 after a line that is no number and a line
\* out of range.
C19_Witness ==
    \E i \in 1..Len(local.returns) :
        /\ local.returns[i].lines = <<Str(<<"x">>), Str(<<"9">>), Str(<<"4">>)>>
        /\ local.returns[i].choice = 4
        /\ local.returns[i].prompts = 3

\* The entries of PRODUCT_TABLE whose code is the string.
Matching(code) == {i \in 1..Len(PRODUCT_TABLE) : PRODUCT_TABLE[i].code = code}

\* The program was run as -d KEY.
DashDRun == lang \in {"cpp", "c"} /\ Len(argv) = 2 /\ argv[1] = Str(<<"-", "d">>)

\* KEY passes the checksum gate.
Decrypts(key) ==
    /\ Len(key) = 16 /\ IsUpperAlnumString(key)
    /\ enigma2_c_decrypt(key).outcome = "return"
    /\ enigma2_c_decrypt(key).output_key # <<>>

\* C20: the codes of PRODUCT_TABLE are pairwise distinct; whenever the
\* decrypt operation prints a product code it prints next the name of the
\* one entry with that code, or "Unknown" when no entry has it, and then the
\* serial number and the option; run as -d KEY on a key that passes the gate
\* it ends with status 0 having printed the fields of the decrypted key.
C20_CatalogLookup ==
    /\ \A i, j \in 1..Len(PRODUCT_TABLE) :
          i # j => PRODUCT_TABLE[i].code # PRODUCT_TABLE[j].code
    /\ \A n \in 1..Len(stdout) :
          stdout[n].text = "Product Code: " =>
              /\ n + 3 <= Len(stdout)
              /\ Len(stdout[n].value) = 4
              /\ IF Matching(stdout[n].value) = {}
                 THEN stdout[n + 1].text = "Unknown"
                 ELSE /\ Cardinality(Matching(stdout[n].value)) = 1
                      /\ \A i \in Matching(stdout[n].value) :
                            stdout[n + 1].text = PRODUCT_TABLE[i].name
              /\ stdout[n + 2].text = "SerialNumber: " /\ Len(stdout[n + 2].value) = 7
              /\ stdout[n + 3].text = "OptionNumber: " /\ Len(stdout[n + 3].value) = 3
    /\ (DashDRun /\ at = "ended" /\ Decrypts(argv[2])) =>
          LET decrypted_key == enigma2_c_decrypt(argv[2]).output_key IN
          /\ exit_status = "0"
          /\ PrintedWith("Product Code: ", SubSeq(decrypted_key, 3, 6))
          /\ PrintedWith("SerialNumber: ", SubSeq(decrypted_key, 7, 13))
          /\ PrintedWith("OptionNumber: ", SubSeq(decrypted_key, 14, 16))

\* The run -d 1150090719507741 (product code 1234, not in the table) has
\* ended having printed Unknown, serial number 1234567 and option 005.
C20_Witness ==
    /\ DashDRun /\ at = "ended" /\ exit_status = "0"
    /\ Matching(Code(1234, 4)) = {}
    /\ PrintedWith("Product Code: ", Code(1234, 4))
    /\ Printed("Unknown")
    /\ PrintedWith("SerialNumber: ", S_1234567)
    /\ PrintedWith("OptionNumber: ", Code(5, 3))


\* C21: the decode tables of Cipher B are the inverse permutations of its
\* encode tables, ENIGMA2_D_ROTOR_10[ENIGMA2_E_ROTOR_10[x]] = x for x in 0..9
\* and ENIGMA2_D_ROTOR_26[ENIGMA2_E_ROTOR_26[x]] = x for x in 0..25, before
\* and after every call.
C21_DecodeInvertsEncode ==
    pc \in {"idle", "called"} =>
        /\ \A x \in 0..9 : At(ENIGMA2_D_ROTOR_10, At(ENIGMA2_E_ROTOR_10, x)) = x
        /\ \A x \in 0..25 : At(ENIGMA2_D_ROTOR_26, At(ENIGMA2_E_ROTOR_26, x)) = x

\* A key has been decoded back, through both decode tables, to the digits and
\* letters that were encoded.
C21_Witness ==
    /\ DecryptedBackB
    /\ outcome = "return"
    /\ SubSeq(output_key, 3, 16) = SubSeq(plain, 3, 16)
    /\ \E i \in 3..16 : plain[i] >= 65
    /\ \E i \in 3..16 : isdigit(plain[i])
    /\ \A x \in 0..9 : At(ENIGMA2_D_ROTOR_10, At(ENIGMA2_E_ROTOR_10, x)) = x


\* enigma2_c_encrypt has been called on a 16-character plaintext whose
\* positions 2-15 are digits or uppercase letters.
EncryptedValidB == pc = "called" /\ fn = "enigma2_c_encrypt" /\ ValidPayload(input_key)

\* C22 as stated: the value 100 - (sum mod 100) computed by enigma2_c_encrypt
\* lies in 0..99 for every valid 16-character plaintext.
C22_ChecksumBelow100 == EncryptedValidB => Enigma2Checksum(input_key) \in 0..99

\* C22: the value 100 - (sum mod 100) computed by enigma2_c_encrypt lies in
\* 1..100 for every valid 16-character plaintext; the two digits written at
\* positions 0 and 1 are the ones and tens digits of that value modulo 100,
\* so the value 100 is written as "00".
C22_ChecksumRange ==
    EncryptedValidB =>
        LET checksum == Enigma2Checksum(input_key)
        IN  /\ checksum \in 1..100
            /\ outcome = "return"
            /\ WithChecksum(input_key)[1] = 48 + ((checksum % 100) % 10)
            /\ WithChecksum(input_key)[2] = 48 + ((checksum % 100) \div 10)
            /\ output_key = Enigma2RotorLoop(WithChecksum(input_key), 0, 0).output_key

\* A plaintext whose weighted sum is a multiple of 100 has been encrypted.
C22_Witness ==
    /\ EncryptedValidB
    /\ outcome = "return"
    /\ Enigma2Checksum(input_key) = 100
    /\ SubSeq(WithChecksum(input_key), 1, 2) = <<48, 48>>


\* running_sum when the second loop of enigma2_c_encrypt reaches position i of
\* out, the plaintext with its two checksum digits written.
RECURSIVE RunningSumAt(_, _)
RunningSumAt(out, i) ==
    IF i = 0 THEN 0
    ELSE RunningSumAt(out, i - 1) + Weight(i - 1, CharValue(out[i]))

\* enigma2_c_encrypt has been called on 16 digits or uppercase letters.
EncryptedUpperAlnumB ==
    pc = "called" /\ fn = "enigma2_c_encrypt" /\ IsUpperAlnumKey(input_key)

\* C23: in enigma2_c_encrypt, for every 16-character plaintext of digits and
\* uppercase letters and every position i in 0..15, d + MAX_CHECK_SUM -
\* running_sum is non-negative, so its remainder modulo m (10 for a digit, 26
\* for a letter) equals the mathematical remainder of d - running_sum, is a
\* valid index of the encode table, and selects the character written.
C23_IndexNonNegative ==
    EncryptedUpperAlnumB =>
        /\ outcome = "return"
        /\ Len(output_key) = 16
        /\ \A i \in 0..15 :
            LET out         == WithChecksum(input_key)
                c           == out[i + 1]
                d           == CharValue(c)
                running_sum == RunningSumAt(out, i)
                raw         == d + MAX_CHECK_SUM - running_sum
                m           == IF isdigit(c) THEN 10 ELSE 26
            IN  /\ raw >= 0
                /\ CMod(raw, m) = (((d - running_sum) % m) + m) % m
                /\ CMod(raw, m) \in 0..(m - 1)
                /\ output_key[i + 1] =
                       IF isdigit(c) THEN At(ENIGMA2_E_ROTOR_10, CMod(raw, m)) + 48
                       ELSE 65 + At(ENIGMA2_E_ROTOR_26, CMod(raw, m))

\* A plaintext with letters and digits has been encrypted and the running sum
\* at the last position exceeds every table size.
C23_Witness ==
    /\ EncryptedUpperAlnumB
    /\ outcome = "return"
    /\ \E i \in 3..16 : input_key[i] >= 65
    /\ \E i \in 3..16 : isdigit(input_key[i])
    /\ RunningSumAt(WithChecksum(input_key), 15) > 1000
    /\ CharValue(input_key[16]) < RunningSumAt(WithChecksum(input_key), 15)


\* Characters placed at positions 0 and 1 of a plaintext: '0', '9', 'A', 'Z'
\* and a space.
Placeholders == {48, 57, 65, 90, 32}

\* in with the characters a and b at positions 0 and 1.
WithPlaceholder(in, a, b) == [in EXCEPT ![1] = a, ![2] = b]

\* C24: the key enigma2_c_encrypt returns does not depend on plaintext
\* positions 0 and 1: every 16-character plaintext that agrees with the one
\* encrypted on positions 2-15 encodes to the same 16-character key.
C24_PlaceholderIndependence ==
    EncryptedValidB =>
        /\ outcome = "return"
        /\ Len(output_key) = 16
        /\ \A a, b \in Placeholders :
               enigma2_c_encrypt(WithPlaceholder(input_key, a, b)) =
                   [outcome |-> "return", output_key |-> output_key]

\* A plaintext whose positions 0 and 1 are not "00" has been encrypted.
C24_Witness ==
    /\ EncryptedValidB
    /\ outcome = "return"
    /\ input_key[1] >= 65
    /\ input_key[2] = 48
    /\ output_key = enigma2_c_encrypt(WithPlaceholder(input_key, 48, 48)).output_key
    /\ \E i \in 3..16 : input_key[i] >= 65


\* output_value of enigma_c_encrypt after position index of in: the table value
\* XOR the previous accumulator, not masked.
RECURSIVE AccumulatorAt(_, _)
AccumulatorAt(in, index) ==
    IF index < 0 THEN 0
    ELSE BitXor(At(ENIGMA_C_ROTOR, (HexValue(tolower(in[index + 1])) + index) % 16),
                AccumulatorAt(in, index - 1))

\* The value enigma_c_decrypt searches ENIGMA_C_ROTOR for at position index of
\* in: the ciphertext nibble XOR the previous ciphertext nibble.
SearchedAt(in, index) ==
    BitXor(HexValue(tolower(in[index + 1])),
           IF index = 0 THEN 0 ELSE HexValue(tolower(in[index])))

\* The indices of ENIGMA_C_ROTOR that hold the value v.
RotorIndices(v) == {j \in 0..15 : At(ENIGMA_C_ROTOR, j) = v}

\* C25: at every position of enigma_c_encrypt the accumulator (table value XOR
\* previous accumulator) stays within 0..15, so the value carried forward is
\* the nibble emitted; at every position of enigma_c_decrypt exactly one index
\* j of ENIGMA_C_ROTOR holds (c XOR previous ciphertext nibble) and the search
\* returns it, never the default 0 of a failed search.
C25_AccumulatorAndSearch ==
    /\ (pc = "called" /\ fn = "enigma_c_encrypt" /\ IsHexString(input_key)) =>
           /\ outcome = "return"
           /\ \A index \in 0..11 :
                  /\ AccumulatorAt(input_key, index) \in 0..15
                  /\ output_key[index + 1] = HexChar(AccumulatorAt(input_key, index))
    /\ (pc = "called" /\ fn = "enigma_c_decrypt" /\ IsHexString(input_key)) =>
           /\ outcome = "return"
           /\ \A index \in 0..11 :
                  LET v == SearchedAt(input_key, index)
                  IN  /\ Cardinality(RotorIndices(v)) = 1
                      /\ RotorIndices(v) = {RotorSearch(v, 0)}
                      /\ output_key[index + 1] =
                             HexChar(DecryptNibble(RotorSearch(v, 0), index))

\* A ciphertext has been decrypted whose search at some position after the
\* first finds index 0, the value a failed search would leave.
C25_Witness ==
    /\ pc = "called" /\ fn = "enigma_c_decrypt" /\ IsHexString(input_key)
    /\ outcome = "return"
    /\ \E index \in 1..11 :
           /\ RotorSearch(SearchedAt(input_key, index), 0) = 0
           /\ At(ENIGMA_C_ROTOR, 0) = SearchedAt(input_key, index)
    /\ \E index \in 1..11 : RotorSearch(SearchedAt(input_key, index), 0) = 15
    /\ \E index \in 1..11 : HexValue(tolower(input_key[index])) = 15


\* The encryption of the output of a decryption of the 12 hex digits plain has
\* ended.
EncryptedBackA == pc = "called" /\ fn = "enigma_c_encrypt" /\ IsHexString(plain)

\* C26: for every 12-character hexadecimal ciphertext C,
\* enigma_c_encrypt(enigma_c_decrypt(C)) returns C with its letters lowercased.
C26_ReverseRoundTripA ==
    EncryptedBackA =>
        /\ outcome = "return"
        /\ output_key = Lowercased(plain)
        /\ input_key = enigma_c_decrypt(plain, 12).output_key

\* A ciphertext with uppercase and lowercase letters has been decrypted and
\* encrypted back, and its decryption differs from it.
C26_Witness ==
    /\ EncryptedBackA
    /\ outcome = "return"
    /\ \E i \in 1..12 : plain[i] >= 65 /\ plain[i] <= 70
    /\ \E i \in 1..12 : plain[i] >= 97 /\ plain[i] <= 102
    /\ input_key # Lowercased(plain)
    /\ output_key = Lowercased(plain)


\* The encryption of the non-empty output of a decryption of the 16 digits
\* plain has ended.
EncryptedBackB ==
    pc = "called" /\ fn = "enigma2_c_encrypt" /\ Len(plain) = 16 /\ AllDigits(plain)

\* C27: for every 16-digit string C, if enigma2_c_decrypt(C) is non-empty then
\* enigma2_c_encrypt(enigma2_c_decrypt(C)) = C: the decode-side gate accepts
\* exactly the checksum digits that the encryption writes for the decoded
\* positions 2-15.
C27_AcceptedKeysAreIssued ==
    EncryptedBackB =>
        /\ outcome = "return"
        /\ output_key = plain
        /\ input_key = enigma2_c_decrypt(plain).output_key
        /\ SubSeq(input_key, 1, 2) = SubSeq(WithChecksum(input_key), 1, 2)

\* An accepted 16-digit key that is none of the sampled keys has been
\* decrypted and encrypted back.
C27_Witness ==
    /\ EncryptedBackB
    /\ outcome = "return"
    /\ \A i \in 1..Len(Key16Samples) : plain # Key16Samples[i]
    /\ output_key = plain


\* key with the digit d at position 15.
WithLastDigit(key, d) == [key EXCEPT ![16] = d]

\* key is a 16-digit key that enigma2_c_decrypt accepts.
ValidDigitKey(key) ==
    /\ Len(key) = 16
    /\ AllDigits(key)
    /\ enigma2_c_decrypt(key).outcome = "return"
    /\ enigma2_c_decrypt(key).output_key # <<>>

\* enigma2_c_decrypt has been called on 16 digits that differ from an accepted
\* key at position 15 only.
LastDigitReplaced ==
    /\ pc = "called"
    /\ fn = "enigma2_c_decrypt"
    /\ Len(input_key) = 16
    /\ AllDigits(input_key)
    /\ \E d \in (48..57) \ {input_key[16]} : ValidDigitKey(WithLastDigit(input_key, d))

\* C28: for every valid all-digit Cipher-B key K, replacing only the character
\* at position 15 with a different digit makes enigma2_c_decrypt return the
\* empty string.
C28_LastDigitDetected ==
    /\ LastDigitReplaced => (outcome = "return" /\ output_key = <<>>)
    /\ (pc = "called" /\ fn = "enigma2_c_decrypt" /\ ValidDigitKey(input_key)) =>
           \A d \in (48..57) \ {input_key[16]} :
               enigma2_c_decrypt(WithLastDigit(input_key, d)) =
                   [outcome |-> "return", output_key |-> <<>>]

\* The key 9225940719507747 with another last digit has been refused.
C28_Witness ==
    /\ LastDigitReplaced
    /\ input_key # S_9225940719507747
    /\ WithLastDigit(input_key, 55) = S_9225940719507747
    /\ outcome = "return"
    /\ output_key = <<>>


\* get_menu_choice has returned to product_code_menu the choice made at the
\* option menu of the product local.prod_code.
OptionMenuReturned ==
    local.caller = "options_menu" /\ at # "get_menu_choice" /\ local.returns # <<>>

\* The choice get_menu_choice returned last.
LastChoice == local.returns[Len(local.returns)].choice

\* C29: once a catalog product with n listed options is selected in
\* product_code_menu, every displayed number 1..n is accepted by
\* get_menu_choice and selects that option, and every accepted choice other
\* than 0 and 8 indexes an existing option of the product: the option code is
\* the one listed under that number and no access is out of range.
C29_ChoicesAreDisplayedNumbers ==
    /\ (at = "get_menu_choice" /\ local.caller = "options_menu") =>
           \A k \in 1..Len(OptionsOf(local.prod_code)) :
               InRange(k, local.min_val, local.max_val) /\ k # 8
    /\ (OptionMenuReturned /\ LastChoice \notin {0, 8}) =>
           /\ LastChoice \in 1..Len(OptionsOf(local.prod_code))
           /\ exit_status \notin {"terminate", "crash"}
           /\ local.opt_code = OptionsOf(local.prod_code)[LastChoice]

\* C29 for the products with at most 7 options: the displayed numbers are
\* accepted, but a choice of 1..7 past the product's last option is accepted
\* as well.
C29_DisplayedNumbersAccepted ==
    (at = "get_menu_choice" /\ local.caller = "options_menu"
         /\ Len(OptionsOf(local.prod_code)) <= 7) =>
        \A k \in 1..Len(OptionsOf(local.prod_code)) :
            InRange(k, local.min_val, local.max_val) /\ k # 8

\* Choice 7 at the option menu of a product with fewer than 7 options has
\* ended the C++ program by an uncaught exception.
C29_OutOfRangeWitness ==
    /\ OptionMenuReturned
    /\ LastChoice = 7
    /\ Len(OptionsOf(local.prod_code)) < 7
    /\ lang = "cpp"
    /\ exit_status = "terminate"


\* The loop of get_menu_choice runs whenever it can: its read of standard
\* input comes back with a line or with the end of the input, and the rest of
\* the iteration follows. MaxSpins bounds the failed reads a behaviour shows;
\* the loop itself has no such bound.
CliFairSpec == CliSpec /\ WF_vars(GetMenuChoice)

C30_EndOfInputLoops ==
    [][(at = "get_menu_choice" /\ stdin.eof) =>
           /\ at' = "get_menu_choice"
           /\ exit_status' = "running"
           /\ local'.returns = local.returns
           /\ stdin'.spins = stdin.spins + 1
           /\ Len(stdout') > Len(stdout)
           /\ stdout'[Len(stdout')].text = "Choose your option: "]_vars

\* get_menu_choice, called by main_menu, has met the end of the input twice
\* and has prompted after each.
C30_LoopWitness ==
    /\ at = "get_menu_choice"
    /\ local.caller = "main_menu"
    /\ stdin.eof
    /\ stdin.spins >= 2
    /\ local.prompts >= 3
    /\ exit_status = "running"

=============================================================================
